---- MODULE Spec2Model ----
(***************************************************************************)
(* A model of RDTM (kesurof/RDTM): the unified sliding-window rate gate    *)
(* (unified_rate_limiter.py), the provider client (rd_client.py), the      *)
(* store (database.py), the re-submission path (torrent_manager.py,        *)
(* backend/app/services/torrent_service.py) and the failure handler with   *)
(* its deferred-retry queue (failure_handler.py).                          *)
(*                                                                         *)
(* Each subsystem has its own specification over its own variables; the    *)
(* variables of the other subsystems are parked at their initial values.   *)
(***************************************************************************)
EXTENDS Integers, Sequences, FiniteSets, TLC

(***************************************************************************)
(* Generic helpers.                                                        *)
(***************************************************************************)
Min(a, b) == IF a <= b THEN a ELSE b

Max(a, b) == IF a >= b THEN a ELSE b

(***************************************************************************)
(*                      PART 1 - UnifiedRateLimiter                        *)
(*                                                                         *)
(* Time is discrete, in ticks of 30 seconds, and every event happens at a  *)
(* tick.  With e the elapsed ticks, the code's comparisons become:         *)
(*   timestamp < now - 60.0         e > 2          (WINDOW = 2)            *)
(*   now - start_time > 5.0         e > 0          (OPTIMAL_TIMEOUT = 0)   *)
(*   time.time() - start_time < 30  e < 1          (MAX_WAIT = 1)          *)
(* An asyncio.sleep of at most 1 s lasts less than one tick: a sleeper     *)
(* wakes after zero or more ticks.                                         *)
(***************************************************************************)

\* --- bounds of the gate model
\* the concurrent callers (tasks of the one event loop); NoCaller: nobody
Callers == {"A", "B"}

NoCaller == "none"

\* the max_calls_per_minute the gate is constructed with (default 250)
max_calls_per_minute == 2

\* the clock stops here
MaxTime == 4

\* the per-call timeouts callers pass to acquire_slot, in ticks
MaxTimeout == 1

Timeouts == {0, MaxTimeout}

\* total number of acquire_slot calls made in one behaviour
MaxCalls == 4

\* --- program constants, in ticks
WINDOW == 2

OPTIMAL_TIMEOUT == 0

MAX_WAIT == 1

OperationTypes == {"test_injection", "cleanup_rd", "notify_media"}

\* the tags the callers of the model pass
CallTags == {"test_injection", "notify_media"}

\* the priority each caller passes (1=normal, 2=high, 3=urgent)
CallerPriority(c) == IF c = "A" THEN 1 ELSE 3

\* adaptive_config[op].weight
Weight(op) ==
    CASE op = "test_injection" -> 50
      [] op = "cleanup_rd" -> 30
      [] OTHER -> 20

VARIABLES
    now,            \* time.time(), in ticks
    calls_window,   \* the deque of APICall: <<[timestamp, operation_type, priority]>>
    lock_owner,     \* holder of self.lock (NoCaller: free)
    lock_waiters,   \* asyncio.Lock's FIFO of waiting callers
    gpc,            \* per caller: where it is in acquire_slot / wait_for_optimal_slot
    start_time,     \* per caller: acquire_slot's start_time
    timeout,        \* per caller: the timeout passed to acquire_slot
    call_op,        \* per caller: operation_type of the call
    opt_start,      \* per caller: wait_for_optimal_slot's start_time
    wait_order,     \* the callers inside acquire_slot, in the order they called it
    calls_made,     \* number of acquire_slot calls started so far
    admissions,     \* history: the admission instant of every admission, in order
    last_admitted   \* history: the caller of the latest admission

gateVars == <<now, calls_window, lock_owner, lock_waiters, gpc, start_time,
              timeout, call_op, opt_start, wait_order, calls_made,
              admissions, last_admitted>>

\* The state of Part 2 (the Store and the re-submissions), declared here so
\* that every action can say what it leaves alone.
VARIABLES
    clock,              \* datetime.now(), in ticks
    dry_run,            \* TorrentManager.dry_run = FailureHandler.dry_run
    store_up,           \* FALSE while the database refuses writes (locked, full)
    symlinks,           \* torrents whose broken links exist under the media path
    torrents,           \* table torrents, by id
    attempts,           \* table attempts: rows per torrent_id and kind
    permanent_failures, \* table permanent_failures (error_type infringing_file)
    retry_queue,        \* table retry_queue (error_type too_many_requests)
    mpc,                \* where the manager is
    m_mode,             \* what the manager's cycle iterates over
    m_todo,             \* the candidates or due retries still to process
    m_steps,            \* after an API failure: what is left to do
    m_err,              \* the api_error of the current re-submission
    m_rows,             \* Attempt rows written by the current re-submission
    m_side_effect,      \* the FailureHandler has acted in the current one
    spc,                \* where the TorrentService task is
    s_cur,              \* the torrent it re-submits
    ops_started,        \* scans, cycles and requests started so far
    dry_destructive     \* destructive calls made while dry_run

envVars == <<clock, dry_run, store_up, symlinks>>

tableVars == <<torrents, attempts, permanent_failures, retry_queue>>

managerVars == <<mpc, m_mode, m_todo, m_steps, m_err, m_rows, m_side_effect>>

serviceVars == <<spc, s_cur>>

storeVars == <<envVars, tableVars, managerVars, serviceVars, ops_started,
               dry_destructive>>

\* The state of Part 3 (opening the Store), one DatabaseManager per process.
VARIABLES
    db_version,         \* PRAGMA user_version of the database file
    db_tables,          \* the base tables exist in the file
    db_column,          \* torrents.needs_symlink_cleanup exists in the file
    opc,                \* per process: where its open of the Store is
    db_lock,            \* per process: DatabaseManager._lock is held
    db_instance         \* per process: _db_instance is set

openVars == <<db_version, db_tables, db_column, opc, db_lock, db_instance>>

\* The state of Part 4 (the provider client), times in units of 0.1 ms.
VARIABLES
    c_time,                  \* time.time() of the client's thread
    cpc,                     \* "idle", or "http" while a request is in flight
    c_method,                \* the client method in progress
    current_delay,           \* rate_limit.current_delay
    last_request_time,       \* rate_limit.last_request_time
    requests_count,          \* rate_limit.requests_count
    errors_count,            \* rate_limit.errors_count
    success_streak,          \* rate_limit.success_streak
    max_torrents_per_cycle,  \* rate_limit.max_torrents_per_cycle
    http_sent,               \* history: HTTP requests sent to the provider
    c_result                 \* the success flag the last call returned

clientVars == <<c_time, cpc, c_method, current_delay, last_request_time,
                requests_count, errors_count, success_streak,
                max_torrents_per_cycle, http_sent, c_result>>

\* The state of Part 5 (the backend application and its own database).
VARIABLES
    b_now,          \* datetime.utcnow(), in ticks of 3 hours
    b_torrents,     \* table torrents of the backend, by id
    b_attempts,     \* table attempts of the backend: rows per torrent_id
    bpc,            \* per task: "idle", or "post" while it awaits the POST
    b_todo,         \* per task: the ids its loop still has to re-submit
    b_obj,          \* per task: attempts_count of the Torrent object it loaded
    b_started       \* scans, jobs and requests started so far

backendVars == <<b_now, b_torrents, b_attempts, bpc, b_todo, b_obj, b_started>>

\* The state of Part 6 (the FailureHandler on the media tree).
VARIABLES
    media,          \* per link of the media tree: what os.walk finds there
    unremovable,    \* the links whose os.remove raises (PermissionError)
    h_failure,      \* the PermanentFailure row of the handled torrent
    hpc,            \* "idle", or "walking" inside _find_and_delete_broken_symlinks
    h_todo,         \* the links os.walk has not visited yet
    h_deleted,      \* deleted_files of the walk
    h_matched       \* the links that were matching orphans when handling began

handlerVars == <<media, unremovable, h_failure, hpc, h_todo, h_deleted,
                 h_matched>>

\* The state of Part 7 (the full scan of TorrentManager and its cursor).
VARIABLES
    f_now,          \* datetime.now(), in ticks
    scan_progress,  \* the row of scan_progress with scan_type 'full'
    fpc,            \* "idle", or "fetch" before the call of get_torrents
    f_offset,       \* current_offset of the invocation, in rows
    f_requested,    \* the offsets of the pages requested from the provider
    f_error,        \* how the last invocation ended
    f_calls         \* invocations of _scan_torrents_full so far

scanVars == <<f_now, scan_progress, fpc, f_offset, f_requested, f_error,
              f_calls>>

\* The state of Part 8 (the walker of the media tree and its persisted state).
VARIABLES
    w_now,          \* datetime.now(), in ticks of 12 hours
    w_file,         \* symlink_processing_state.json
    wpc,            \* "down", "idle", or "scanning" / "inspecting" in a walk
    w_state,        \* self.state of the running process
    w_queue,        \* self.processing_queue: directories with broken links
    w_batch,        \* self.current_batch
    w_i,            \* the position of the walk in the ordered directories
    w_results,      \* results of the walk in progress
    w_size,         \* batch_size of the request that started the walk
    w_finished,     \* the directories the unfinished walk has inspected
    w_resumed,      \* the walk in progress resumes an interrupted walk
    w_handed,       \* the batch the last get_next_symlink_batch returned
    w_delivered     \* the links returned since the walk began, in order

walkerVars == <<w_now, w_file, wpc, w_state, w_queue, w_batch, w_i, w_results,
                w_size, w_finished, w_resumed, w_handed, w_delivered>>

VARIABLES
    shutdown_requested, \* SignalHandler.shutdown_requested
    is_running,         \* DualThreadRDManager.is_running
    task,               \* the state of each long-running task
    raised,             \* exceptions raised inside iterations, per task
    logged,             \* logger.error calls of each task
    db_closed,          \* DatabaseManager.close() has been called
    main_pc             \* the position of main(): "init", "gather", "exited"

schedVars == <<shutdown_requested, is_running, task, raised, logged,
               db_closed, main_pc>>

VARIABLES
    e_pc,           \* per operation of the backend services: "idle", "running"
    e_events,       \* per operation: the events broadcast since its last start
    e_outcome,      \* per operation: how its last run ended
    e_started       \* operations started so far

eventVars == <<e_pc, e_events, e_outcome, e_started>>

VARIABLES
    k_rows,         \* the rows the WHERE clause of get_failed_torrents keeps
    k_max,          \* max_torrents_per_cycle of the last selection
    k_selected,     \* what get_reinjection_candidates returned
    k_called        \* a selection has been made on the rows as they are

candidateVars == <<k_rows, k_max, k_selected, k_called>>

VARIABLES
    p_dry_run,      \* TorrentManager.dry_run of the call
    p_hash,         \* torrent.hash of the last call of reinject_torrent
    p_attempts,     \* the rows of the table attempts, oldest first
    p_requests,     \* the add_magnet requests the last call sent
    p_result,       \* what the last call returned: "none", "true", "false"
    p_calls         \* calls of reinject_torrent so far

preflightVars == <<p_dry_run, p_hash, p_attempts, p_requests, p_result,
                   p_calls>>

VARIABLES
    u_rows,         \* table torrents of DatabaseManager (src/database.py)
    b_rows,         \* table torrents of the backend (SQLAlchemy model Torrent)
    u_now,          \* the clock datetime.now() / datetime.utcnow() reads
    u_payload,      \* torrent_data of the last write, per implementation
    u_result,       \* whether the last write was committed, per implementation
    u_calls         \* writes so far, per implementation

upsertVars == <<u_rows, b_rows, u_now, u_payload, u_result, u_calls>>

VARIABLES
    v_cache,        \* TorrentValidator.validation_cache, in insertion order
    v_blacklist,    \* TorrentValidator.hash_blacklist
    v_first,        \* what the first, uncached parse of each magnet returned
    v_op,           \* the last call: "none", "parse", "validate", "blacklist"
    v_arg,          \* the magnet or hash of the last call
    v_result,       \* what the last parse or validation returned
    v_calls         \* calls of the validator so far

validatorVars == <<v_cache, v_blacklist, v_first, v_op, v_arg, v_result,
                   v_calls>>

VARIABLES
    j_jobs,         \* the TorrentJob objects by id: name and status
    j_queue,        \* TorrentQueue.queue: job ids, in the order added
    j_active,       \* TorrentQueue.active_jobs: job ids, in insertion order
    j_started       \* history: the job ids in the order they were started

queueVars == <<j_jobs, j_queue, j_active, j_started>>

\* The state of Part 16 (the connections of the live event channel).
VARIABLES
    ws_sockets,          \* websocket_endpoint of each WebSocket: its position
    active_connections, \* WebSocketManager.active_connections
    ws_pc,               \* broadcast: "idle", or "sending" in its first loop
    ws_index,            \* the elements the iterator of the loop has yielded
    ws_connection,       \* the loop variable `connection`
    ws_disconnected,     \* the local list `disconnected`
    ws_received,         \* history: the sockets the event was sent to
    ws_stayed,           \* history: connected since the broadcast began
    ws_broadcasts        \* the broadcasts begun

channelVars == <<ws_sockets, active_connections, ws_pc, ws_index, ws_connection,
                 ws_disconnected, ws_received, ws_stayed, ws_broadcasts>>

\* what the actions of one part leave alone
outsideGate == <<storeVars, openVars, clientVars, backendVars, handlerVars,
                 scanVars, walkerVars, schedVars, eventVars, candidateVars,
                 preflightVars, upsertVars, validatorVars, queueVars,
                 channelVars>>

outsideStore == <<gateVars, openVars, clientVars, backendVars, handlerVars,
                  scanVars, walkerVars, schedVars, eventVars, candidateVars,
                  preflightVars, upsertVars, validatorVars, queueVars,
                  channelVars>>

outsideOpen == <<gateVars, storeVars, clientVars, backendVars, handlerVars,
                 scanVars, walkerVars, schedVars, eventVars, candidateVars,
                 preflightVars, upsertVars, validatorVars, queueVars,
                 channelVars>>

outsideClient == <<gateVars, storeVars, openVars, backendVars, handlerVars,
                   scanVars, walkerVars, schedVars, eventVars,
                   candidateVars, preflightVars, upsertVars, validatorVars,
                   queueVars, channelVars>>

outsideBackend == <<gateVars, storeVars, openVars, clientVars, handlerVars,
                    scanVars, walkerVars, schedVars, eventVars,
                    candidateVars, preflightVars, upsertVars, validatorVars,
                    queueVars, channelVars>>

outsideHandler == <<gateVars, storeVars, openVars, clientVars, backendVars,
                    scanVars, walkerVars, schedVars, eventVars,
                    candidateVars, preflightVars, upsertVars, validatorVars,
                    queueVars, channelVars>>

outsideScan == <<gateVars, storeVars, openVars, clientVars, backendVars,
                 handlerVars, walkerVars, schedVars, eventVars,
                 candidateVars, preflightVars, upsertVars, validatorVars,
                 queueVars, channelVars>>

outsideWalker == <<gateVars, storeVars, openVars, clientVars, backendVars,
                   handlerVars, scanVars, schedVars, eventVars,
                   candidateVars, preflightVars, upsertVars, validatorVars,
                   queueVars, channelVars>>

outsideSched == <<gateVars, storeVars, openVars, clientVars, backendVars,
                  handlerVars, scanVars, walkerVars, eventVars,
                  candidateVars, preflightVars, upsertVars, validatorVars,
                  queueVars, channelVars>>

outsideEvents == <<gateVars, storeVars, openVars, clientVars, backendVars,
                   handlerVars, scanVars, walkerVars, schedVars,
                   candidateVars, preflightVars, upsertVars, validatorVars,
                   queueVars, channelVars>>

outsideCandidates == <<gateVars, storeVars, openVars, clientVars,
                       backendVars, handlerVars, scanVars, walkerVars,
                       schedVars, eventVars, preflightVars, upsertVars,
                       validatorVars, queueVars, channelVars>>

outsidePreflight == <<gateVars, storeVars, openVars, clientVars,
                      backendVars, handlerVars, scanVars, walkerVars,
                      schedVars, eventVars, candidateVars, upsertVars,
                      validatorVars, queueVars, channelVars>>

outsideUpsert == <<gateVars, storeVars, openVars, clientVars, backendVars,
                   handlerVars, scanVars, walkerVars, schedVars, eventVars,
                   candidateVars, preflightVars, validatorVars, queueVars,
                   channelVars>>

outsideValidator == <<gateVars, storeVars, openVars, clientVars,
                      backendVars, handlerVars, scanVars, walkerVars,
                      schedVars, eventVars, candidateVars, preflightVars,
                      upsertVars, queueVars, channelVars>>

outsideQueue == <<gateVars, storeVars, openVars, clientVars, backendVars,
                  handlerVars, scanVars, walkerVars, schedVars, eventVars,
                  candidateVars, preflightVars, upsertVars, validatorVars,
                  channelVars>>

outsideChannel == <<gateVars, storeVars, openVars, clientVars, backendVars,
                    handlerVars, scanVars, walkerVars, schedVars, eventVars,
                    candidateVars, preflightVars, upsertVars, validatorVars,
                    queueVars>>

GateInit ==
    /\ now = 0
    /\ calls_window = <<>>
    /\ lock_owner = NoCaller
    /\ lock_waiters = <<>>
    /\ gpc = [c \in Callers |-> "idle"]
    /\ start_time = [c \in Callers |-> 0]
    /\ timeout = [c \in Callers |-> 0]
    /\ call_op = [c \in Callers |-> "test_injection"]
    /\ opt_start = [c \in Callers |-> 0]
    /\ wait_order = <<>>
    /\ calls_made = 0
    /\ admissions = <<>>
    /\ last_admitted = NoCaller

\* lines 67-69: drop the entries older than one minute from the left
RECURSIVE PurgeWindow(_, _)
PurgeWindow(w, t) ==
    IF w # <<>> /\ w[1].timestamp < t - WINDOW
    THEN PurgeWindow(Tail(w), t)
    ELSE w

SlotAvailable_OffByOne(w) == Len(w) <= max_calls_per_minute

\* line 74: current_calls < self.max_calls_per_minute
SlotAvailable(w) == Len(w) < max_calls_per_minute

\* line 89: now - start_time > timeout
TimedOut(c, t) == t - start_time[c] > timeout[c]

\* asyncio.Lock.release(): the first waiter is woken and takes the lock
LockAfterRelease == IF lock_waiters = <<>> THEN NoCaller ELSE Head(lock_waiters)

WaitersAfterRelease == IF lock_waiters = <<>> THEN <<>> ELSE Tail(lock_waiters)

\* leaving "async with self.lock" and returning r (True: admitted, False: timeout)
ReleaseAndReturn(c, r) ==
    /\ lock_owner' = LockAfterRelease
    /\ lock_waiters' = WaitersAfterRelease
    /\ gpc' = [d \in Callers |->
                 IF d = c THEN "idle"
                 ELSE IF d = LockAfterRelease THEN "granted"
                 ELSE gpc[d]]
    /\ start_time' = [start_time EXCEPT ![c] = 0]
    /\ timeout' = [timeout EXCEPT ![c] = 0]
    /\ call_op' = [call_op EXCEPT ![c] = "test_injection"]
    /\ wait_order' = SelectSeq(wait_order, LAMBDA d : d # c)

\* lines 60-62: start_time = time.time(); async with self.lock
EnterAcquire(c, op, to) ==
    /\ calls_made < MaxCalls
    /\ calls_made' = calls_made + 1
    /\ wait_order' = Append(wait_order, c)
    /\ start_time' = [start_time EXCEPT ![c] = now]
    /\ timeout' = [timeout EXCEPT ![c] = to]
    /\ call_op' = [call_op EXCEPT ![c] = op]
    /\ opt_start' = [opt_start EXCEPT ![c] = 0]
    /\ IF lock_owner = NoCaller /\ lock_waiters = <<>>
       THEN /\ lock_owner' = c
            /\ gpc' = [gpc EXCEPT ![c] = "granted"]
            /\ UNCHANGED lock_waiters
       ELSE /\ lock_waiters' = Append(lock_waiters, c)
            /\ gpc' = [gpc EXCEPT ![c] = "waitlock"]
            /\ UNCHANGED lock_owner

\* a direct call of acquire_slot(operation_type, identifier, priority, timeout)
acquire_slot(c) ==
    /\ gpc[c] = "idle"
    /\ \E op \in CallTags, to \in Timeouts :
          EnterAcquire(c, op, to)
    /\ UNCHANGED <<now, calls_window, admissions, last_admitted>>
    /\ UNCHANGED outsideGate

\* the caller stays in the guarded section and goes to sleep (line 106)
SleepLocked(c) ==
    /\ gpc' = [gpc EXCEPT ![c] = "sleeping"]
    /\ UNCHANGED <<lock_owner, lock_waiters, start_time, timeout,
                   call_op, wait_order>>

\* a variant of the wait in which the sleeper leaves the guarded section: the
\* lock passes to the first waiter while the caller sleeps
SleepUnlocked(c) ==
    /\ lock_owner' = LockAfterRelease
    /\ lock_waiters' = WaitersAfterRelease
    /\ gpc' = [d \in Callers |->
                 IF d = c THEN "sleeping"
                 ELSE IF d = LockAfterRelease THEN "granted"
                 ELSE gpc[d]]
    /\ UNCHANGED <<start_time, timeout, call_op, wait_order>>

\* lines 94-106: no slot and no timeout: sleep, still inside "async with"
WaitForSlot(c) == SleepLocked(c)

\* lines 63-106: one iteration of the while True loop, under the lock
acquire_slot_iteration(c) ==
    /\ gpc[c] \in {"granted", "loop"}
    /\ lock_owner = c
    /\ LET w == PurgeWindow(calls_window, now) IN
       IF SlotAvailable(w)
       THEN /\ calls_window' = Append(w, [timestamp |-> now,
                                          operation_type |-> call_op[c],
                                          priority |-> CallerPriority(c)])
            /\ admissions' = Append(admissions, now)
            /\ last_admitted' = c
            /\ ReleaseAndReturn(c, "true")
       ELSE /\ calls_window' = w
            /\ UNCHANGED <<admissions, last_admitted>>
            /\ IF TimedOut(c, now)
               THEN ReleaseAndReturn(c, "false")
               ELSE WaitForSlot(c)
    /\ UNCHANGED <<now, opt_start, calls_made>>
    /\ UNCHANGED outsideGate

\* line 106: asyncio.sleep(min(wait_time, 1.0)) returns and the loop goes on.
\* The sleeper is still inside "async with self.lock"; one that were not would
\* have to take the lock again, behind the callers waiting for it.
acquire_slot_wake(c) ==
    /\ gpc[c] \in {"sleeping", "slept"}
    /\ IF lock_owner = c
       THEN /\ gpc' = [gpc EXCEPT ![c] = "loop"]
            /\ UNCHANGED <<lock_owner, lock_waiters>>
       ELSE IF lock_owner = NoCaller /\ lock_waiters = <<>>
            THEN /\ lock_owner' = c
                 /\ gpc' = [gpc EXCEPT ![c] = "loop"]
                 /\ UNCHANGED lock_waiters
            ELSE /\ lock_waiters' = Append(lock_waiters, c)
                 /\ gpc' = [gpc EXCEPT ![c] = "waitlock"]
                 /\ UNCHANGED lock_owner
    /\ UNCHANGED <<now, calls_window, start_time,
                   timeout, call_op, opt_start, wait_order,
                   calls_made, admissions, last_admitted>>
    /\ UNCHANGED outsideGate

\* lines 123-144: get_current_usage, for one tag and in total
UsageOf(ops) ==
    Cardinality({i \in DOMAIN calls_window :
                    /\ calls_window[i].timestamp >= now - WINDOW
                    /\ calls_window[i].operation_type \in ops})

\* lines 146-168: get_recommendations()[op], when total > 0
Recommendation(op) ==
    LET total == UsageOf(OperationTypes)
        usage == UsageOf({op})
        target == Weight(op)
    IN  IF usage * 1000 < target * 8 * total
        THEN Min(100, (target * 12) \div 10)
        ELSE IF usage * 1000 > target * 12 * total
             THEN Max(10, (target * 8) \div 10)
             ELSE target

\* lines 212-216: current_ratio <= recommended_ratio
IsOptimal(op) ==
    UsageOf({op}) * 100 <= Recommendation(op) * Max(1, UsageOf(OperationTypes))

\* lines 194-205: wait_for_optimal_slot(operation_type) is called
wait_for_optimal_slot(c) ==
    /\ gpc[c] = "idle"
    /\ calls_made < MaxCalls
    /\ \E op \in CallTags :
          call_op' = [call_op EXCEPT ![c] = op]
    /\ opt_start' = [opt_start EXCEPT ![c] = now]
    /\ gpc' = [gpc EXCEPT ![c] = "optimal"]
    /\ UNCHANGED <<now, calls_window, lock_owner, lock_waiters, start_time,
                   timeout, wait_order, calls_made, admissions, last_admitted>>
    /\ UNCHANGED outsideGate

\* lines 207-224: one evaluation of the while condition and of the loop body.
\* With an empty usage get_recommendations returns adaptive_config itself, whose
\* values are dicts: the comparison of line 216 raises TypeError.
wait_for_optimal_slot_iteration(c) ==
    /\ gpc[c] = "optimal"
    /\ IF now - opt_start[c] < MAX_WAIT
       THEN IF UsageOf(OperationTypes) = 0
            THEN /\ gpc' = [gpc EXCEPT ![c] = "idle"]
                 /\ call_op' = [call_op EXCEPT ![c] = "test_injection"]
                 /\ opt_start' = [opt_start EXCEPT ![c] = 0]
                 /\ UNCHANGED <<lock_owner, lock_waiters, start_time, timeout,
                                wait_order, calls_made>>
            ELSE IF IsOptimal(call_op[c])
                 THEN EnterAcquire(c, call_op[c], OPTIMAL_TIMEOUT)
                 ELSE /\ gpc' = [gpc EXCEPT ![c] = "optsleep"]
                      /\ UNCHANGED <<lock_owner, lock_waiters, start_time,
                                     timeout, call_op, wait_order,
                                     calls_made, opt_start>>
       ELSE EnterAcquire(c, call_op[c], OPTIMAL_TIMEOUT)
    /\ UNCHANGED <<now, calls_window, admissions, last_admitted>>
    /\ UNCHANGED outsideGate

\* line 220: asyncio.sleep(1.0) returns
wait_for_optimal_slot_wake(c) ==
    /\ gpc[c] = "optsleep"
    /\ gpc' = [gpc EXCEPT ![c] = "optimal"]
    /\ UNCHANGED <<now, calls_window, lock_owner, lock_waiters, start_time,
                   timeout, call_op, opt_start, wait_order,
                   calls_made, admissions, last_admitted>>
    /\ UNCHANGED outsideGate

\* a caller that the event loop runs before the next tick: it has just been
\* given the lock, has come back from a sleep, is in the loop of
\* wait_for_optimal_slot, or sleeps a sleep that a tick has already overtaken
\* (a sleep lasts at most 1 s, less than a tick)
Runnable(c) == gpc[c] \in {"granted", "loop", "optimal", "slept"}

\* The clock advances by one tick, when no caller is runnable.
Tick ==
    /\ now < MaxTime
    /\ \A c \in Callers : ~Runnable(c)
    /\ now' = now + 1
    /\ gpc' = [c \in Callers |->
                 CASE gpc[c] = "sleeping" -> "slept"
                   [] gpc[c] = "optsleep" -> "optimal"
                   [] OTHER -> gpc[c]]
    /\ UNCHANGED <<calls_window, lock_owner, lock_waiters, start_time,
                   timeout, call_op, opt_start, wait_order,
                   calls_made, admissions, last_admitted>>
    /\ UNCHANGED outsideGate

GateNext ==
    \/ Tick
    \/ \E c \in Callers : acquire_slot(c)
    \/ \E c \in Callers : acquire_slot_iteration(c)
    \/ \E c \in Callers : acquire_slot_wake(c)
    \/ \E c \in Callers : wait_for_optimal_slot(c)
    \/ \E c \in Callers : wait_for_optimal_slot_iteration(c)
    \/ \E c \in Callers : wait_for_optimal_slot_wake(c)

(***************************************************************************)
(* Claims about the gate (checked under SpecGate).                         *)
(***************************************************************************)

\* the admissions whose instant lies in the closed window [a, a + 60 s]
AdmissionsIn(a) ==
    Cardinality({i \in DOMAIN admissions :
                    admissions[i] >= a /\ admissions[i] <= a + WINDOW})

\* C1: in every rolling 60-second window, whatever the interleaving of
\* acquire_slot and wait_for_optimal_slot callers, the number of admissions is
\* at most max_calls_per_minute.
C1_RollingWindowBound ==
    \A a \in 0..MaxTime : AdmissionsIn(a) <= max_calls_per_minute

\* C1 witness: more admissions than one window holds have happened, the later
\* ones after earlier entries left the window, and a caller is still waiting.
C1_Witness ==
    /\ Len(admissions) > max_calls_per_minute
    /\ \E c \in Callers : gpc[c] = "sleeping"

\* C8: a caller whose per-call timeout has elapsed is never
\* admitted afterwards; it returns False without adding an entry to the window.
C8_NoAdmissionAfterTimeout ==
    [][\A c \in Callers :
          (lock_owner = c /\ gpc[c] = "granted"
             /\ Len(admissions') > Len(admissions))
          => ~TimedOut(c, now)]_gateVars

\* C9: admission order is wait-start order: the caller admitted by a step is
\* the one that called acquire_slot first among the callers then inside it.
C9_FifoAdmission ==
    [][\A c \in Callers :
          (lock_owner = c /\ Len(admissions') > Len(admissions))
          => Head(wait_order) = c]_gateVars

\* C9 witness: A (priority 1) has just been admitted while B (priority 3), which
\* called acquire_slot after A, was queued behind it and now holds the lock.
C9_Witness ==
    /\ last_admitted = "A"
    /\ wait_order = <<"B">>
    /\ lock_owner = "B"
    /\ gpc["B"] = "granted"
    /\ Len(admissions) > max_calls_per_minute

\* C34: a caller of acquire_slot that sleeps to wait for a slot does not
\* hold the mutual-exclusion guard while it sleeps, so that another caller
\* can enter the guarded section and evaluate the window.
C34_SleeperReleasesGuard ==
    \A c \in Callers : gpc[c] \in {"sleeping", "slept"} => lock_owner # c

(***************************************************************************)
(* PART 2.  The Store (src/database.py), the re-submission of a torrent    *)
(* by TorrentManager (src/torrent_manager.py) and by TorrentService        *)
(* (src/backend/app/services/torrent_service.py), and the FailureHandler   *)
(* (src/failure_handler.py) with its retry queue.                          *)
(*                                                                         *)
(* Time is counted in ticks of 3 hours, the retry delay: HOLD is 1 tick.   *)
(* A cycle of the manager takes far less than a tick: the clock advances   *)
(* only between cycles.                                                    *)
(***************************************************************************)

TorrentIds == {"t1"}

NoTorrent == "none"

\* a TIMESTAMP column that is NULL
NULL == 0 - 1

\* the clock stops here
MaxClock == 3

\* the scans, manager cycles and service requests of one behaviour
MaxOps == 4

\* APP_CONFIG['retry_delay_hours'] = 3 hours, in ticks
HOLD == 1

\* APP_CONFIG['max_retry_attempts']
MAX_ATTEMPTS == 3

\* "retry_count < 3" of get_pending_retries
MAX_RETRY == 3

\* "WHEN retry_count < 2" of _update_retry_attempt
RESCHEDULE_BELOW == 2

\* the priority a row gets when the payload names none
DEFAULT_PRIORITY == 2

\* the priority _scan_torrents_symlinks gives
SYMLINK_PRIORITY == 3

FAILED_STATUSES == {"magnet_error", "error", "virus", "dead"}

\* the statuses the scans of this model report
ScanStatuses == {"magnet_error", "downloaded", "symlink_broken"}

\* what an Attempt row says: success with the provider's answer, the dry-run
\* simulation, or a failure
AttemptKinds == {"success", "dry_run", "failed"}

\* what add_magnet gives back: success, the three classes of api_error that
\* _classify_api_error tells apart, or an answer whose handling raises
ApiOutcomes == {"ok", "infringing_file", "too_many_requests", "other", "exception"}

\* what the POST of TorrentService gives back: status 200/201, another status,
\* or an exception of the transport
PostOutcomes == {"ok", "http_error", "exception"}

DestructiveCalls == {"add_magnet", "unlink", "indexer_post"}

NoRow == [present |-> FALSE, status |-> "none", attempts_count |-> 0,
          last_attempt |-> NULL, hash_valid |-> TRUE,
          priority |-> DEFAULT_PRIORITY, last_seen |-> 0]

\* a row of retry_queue (UNIQUE(torrent_id, error_type), and one error type is
\* ever scheduled): its retry_count, original_failure and scheduled_retry
NoRetry == [present |-> FALSE, retry_count |-> 0, original_failure |-> 0,
            scheduled_retry |-> 0]

\* the database after setup_database, before any scan
StoreInit ==
    /\ clock = 0
    /\ dry_run = TRUE
    /\ store_up = TRUE
    /\ symlinks = {}
    /\ torrents = [t \in TorrentIds |-> NoRow]
    /\ attempts = [t \in TorrentIds |-> [k \in AttemptKinds |-> 0]]
    /\ permanent_failures = [t \in TorrentIds |-> "none"]
    /\ retry_queue = [t \in TorrentIds |-> NoRetry]
    /\ mpc = "idle"
    /\ m_mode = "none"
    /\ m_todo = <<>>
    /\ m_steps = <<>>
    /\ m_err = "none"
    /\ m_rows = 0
    /\ m_side_effect = FALSE
    /\ spc = "idle"
    /\ s_cur = NoTorrent
    /\ ops_started = 0
    /\ dry_destructive = {}

\* the permutations of a finite set, as sequences
Perms(S) ==
    {f \in [1..Cardinality(S) -> S] :
        \A i, j \in 1..Cardinality(S) : i # j => f[i] # f[j]}

Position(seq, x) == CHOOSE i \in DOMAIN seq : seq[i] = x

SeqTake(seq, n) == SubSeq(seq, 1, Min(n, Len(seq)))

\* ORDER BY priority DESC, last_seen DESC: a may come before b
RowBefore(a, b) ==
    \/ torrents[a].priority > torrents[b].priority
    \/ /\ torrents[a].priority = torrents[b].priority
       /\ torrents[a].last_seen >= torrents[b].last_seen

\* the orders in which the query may return the rows of S (rows that tie come
\* in an order SQL leaves open)
QueryOrder(S) ==
    {f \in Perms(S) : \A i, j \in DOMAIN f : i < j => RowBefore(f[i], f[j])}

\* the comparison with "<=" in place of "<"
AttemptsBelowMax_Inclusive(t) == torrents[t].attempts_count <= MAX_ATTEMPTS

\* "attempts_count < ?" with APP_CONFIG['max_retry_attempts']
AttemptsBelowMax(t) == torrents[t].attempts_count < MAX_ATTEMPTS

\* "last_attempt IS NULL OR last_attempt < ?" with now - retry_delay_hours
OutsideHold(t) ==
    \/ torrents[t].last_attempt = NULL
    \/ torrents[t].last_attempt < clock - HOLD

\* the WHERE clause of get_failed_torrents (exclude_recent_attempts = True)
FailedRows ==
    {t \in TorrentIds : /\ torrents[t].present
                        /\ torrents[t].status \in FAILED_STATUSES
                        /\ AttemptsBelowMax(t)
                        /\ OutsideHold(t)}

\* the WHERE clause of reinject_failed_torrents(scan_type = 'symlinks')
SymlinkBrokenRows ==
    {t \in TorrentIds : /\ torrents[t].present
                        /\ torrents[t].status = "symlink_broken"
                        /\ torrents[t].attempts_count < MAX_ATTEMPTS}

\* candidates.sort(key = (-priority, last_seen), reverse = True): the key of a
\* is greater than the key of b
KeyGreater(a, b) ==
    \/ torrents[a].priority < torrents[b].priority
    \/ /\ torrents[a].priority = torrents[b].priority
       /\ torrents[a].last_seen > torrents[b].last_seen

KeyEqual(a, b) ==
    /\ torrents[a].priority = torrents[b].priority
    /\ torrents[a].last_seen = torrents[b].last_seen

\* the stable sort of line 462 applied to the rows in the order sq
SortedCandidates(sq) ==
    CHOOSE f \in Perms({sq[i] : i \in DOMAIN sq}) :
        \A i, j \in DOMAIN f : i < j =>
            \/ KeyGreater(f[i], f[j])
            \/ KeyEqual(f[i], f[j]) /\ Position(sq, f[i]) < Position(sq, f[j])

\* the WHERE clause with "retry_count <= 3"
DueRetries_Inclusive ==
    {t \in TorrentIds : /\ retry_queue[t].present
                        /\ retry_queue[t].scheduled_retry <= clock
                        /\ retry_queue[t].retry_count <= MAX_RETRY}

\* the WHERE clause of get_pending_retries
DueRetries ==
    {t \in TorrentIds : /\ retry_queue[t].present
                        /\ retry_queue[t].scheduled_retry <= clock
                        /\ retry_queue[t].retry_count < MAX_RETRY}

\* ORDER BY scheduled_retry ASC
RetryOrder(S) ==
    {f \in Perms(S) : \A i, j \in DOMAIN f : i < j =>
        retry_queue[f[i]].scheduled_retry <= retry_queue[f[j]].scheduled_retry}

\* what the loop of a cycle iterates over: the id, and for a due retry the
\* retry_count of the row as it was read
TodoOf(seq) ==
    [i \in DOMAIN seq |->
        [id |-> seq[i], retry_count |-> retry_queue[seq[i]].retry_count]]

\* upsert_torrent: an existing row keeps first_seen, attempts and priority
Upsert(tor, t, status, prio, hv) ==
    IF ~store_up THEN tor
    ELSE IF tor[t].present
    THEN [tor EXCEPT ![t].status = status, ![t].hash_valid = hv,
                     ![t].last_seen = clock]
    ELSE [tor EXCEPT ![t] = [present |-> TRUE, status |-> status,
                             attempts_count |-> 0, last_attempt |-> NULL,
                             hash_valid |-> hv, priority |-> prio,
                             last_seen |-> clock]]

\* record_attempt, the INSERT: one more row, unless the write raises (the
\* exception is caught, logged and answered by False)
AttemptRows(att, t, kind) ==
    IF store_up THEN [att EXCEPT ![t][kind] = @ + 1] ELSE att

\* record_attempt, the UPDATE of the torrent (no row, no effect)
AttemptCounted(tor, t) ==
    IF store_up /\ tor[t].present
    THEN [tor EXCEPT ![t].attempts_count = @ + 1, ![t].last_attempt = clock]
    ELSE tor

RowsWritten == IF store_up THEN 1 ELSE 0

\* _find_and_delete_broken_symlinks: the broken links whose name matches the
\* torrent's filename
MatchingLinks(t) == IF t \in symlinks THEN {t} ELSE {}

\* _update_retry_attempt(success = False): the UPDATE of the row, if any
UpdateRetryAttempt(rq, t) ==
    IF store_up /\ rq[t].present
    THEN [rq EXCEPT ![t].retry_count = @ + 1,
                    ![t].scheduled_retry =
                        IF rq[t].retry_count < RESCHEDULE_BELOW
                        THEN clock + HOLD ELSE @]
    ELSE rq

\* _remove_from_retry_queue
RemoveFromRetryQueue(rq, t) ==
    IF store_up THEN [rq EXCEPT ![t] = NoRetry] ELSE rq

\* _schedule_retry: INSERT OR REPLACE on UNIQUE(torrent_id, error_type)
ScheduleRetry(rq, t) ==
    IF store_up
    THEN [rq EXCEPT ![t] = [present |-> TRUE, retry_count |-> 0,
                            original_failure |-> clock,
                            scheduled_retry |-> clock + HOLD]]
    ELSE rq

\* handle_failure (called by _handle_post_failure for the two error types it
\* knows): the tables, the links and the calls it leaves.  Every Store write
\* of the handler catches its own exception.
\*   infringing_file: _record_permanent_failure(processed = False), deletion
\*     of the matching broken links (simulated in dry-run: _delete_symlink
\*     answers True without os.remove), and if any was "deleted" the rescan
\*     POSTs (skipped in dry-run, or when the indexer cannot be reached) and
\*     _mark_as_processed;
\*   too_many_requests: _schedule_retry at now + 3 h.
HandleFailure(t, err, reachable) ==
    LET deleted == MatchingLinks(t)
        pf1 == IF store_up THEN [permanent_failures EXCEPT ![t] = "unprocessed"]
               ELSE permanent_failures
        pf2 == IF store_up /\ pf1[t] # "none"
               THEN [pf1 EXCEPT ![t] = "processed"] ELSE pf1
        unlinked == deleted # {} /\ ~dry_run
        posted == deleted # {} /\ ~dry_run /\ reachable
    IN  CASE err = "infringing_file" ->
               [pf |-> IF deleted # {} THEN pf2 ELSE pf1,
                rq |-> retry_queue,
                links |-> IF dry_run THEN symlinks ELSE symlinks \ deleted,
                calls |-> (IF unlinked THEN {"unlink"} ELSE {})
                          \cup (IF posted THEN {"indexer_post"} ELSE {}),
                acted |-> store_up \/ unlinked \/ posted]
          [] err = "too_many_requests" ->
               [pf |-> permanent_failures,
                rq |-> ScheduleRetry(retry_queue, t),
                links |-> symlinks,
                calls |-> {},
                acted |-> store_up]
          [] OTHER ->
               [pf |-> permanent_failures, rq |-> retry_queue,
                links |-> symlinks, calls |-> {}, acted |-> FALSE]

\* the variant that ignores the mode
SimulateOnly_Ignored == FALSE

\* line 516: "if self.dry_run"
SimulateOnly == dry_run

\* lines 544-559: after an API failure, record_attempt, then
\* _handle_post_failure, then "return False, error"
FailureSteps == <<"record_attempt", "handle_post_failure", "return">>

\* reinject_torrent has returned (success or not) to the loop of the cycle:
\* process_pending_retries removes the row of a successful retry and updates
\* the row of a failed one (lines 899-908); the loops over candidates only
\* count.  Then the next element, or the end of the cycle.
ReinjectReturns(success) ==
    LET head == Head(m_todo)
    IN  /\ retry_queue' =
             IF m_mode # "retries" THEN retry_queue
             ELSE IF success THEN RemoveFromRetryQueue(retry_queue, head.id)
             ELSE UpdateRetryAttempt(retry_queue, head.id)
        /\ m_todo' = Tail(m_todo)
        /\ mpc' = IF Tail(m_todo) = <<>> THEN "idle" ELSE "loop"
        /\ m_mode' = IF Tail(m_todo) = <<>> THEN "none" ELSE m_mode
        /\ m_steps' = <<>>
        /\ m_err' = "none"
        /\ m_rows' = 0
        /\ m_side_effect' = FALSE

\* the priorities calculate_priority gives in this model
Priorities == {DEFAULT_PRIORITY, SYMLINK_PRIORITY}

\* the per-cycle limits (max_torrents_per_cycle, limit) of this model
MaxPerCycle == 2

\* _process_torrents_batch: a row the provider lists is validated (its hash is
\* well formed, validate_torrent_metadata) and upserted
scan_torrents(t) ==
    /\ mpc = "idle"
    /\ ops_started < MaxOps
    /\ \E status \in ScanStatuses \ {"symlink_broken"}, prio \in Priorities :
          torrents' = Upsert(torrents, t, status, prio,
                             IF torrents[t].present
                             THEN torrents[t].hash_valid ELSE TRUE)
    /\ ops_started' = ops_started + 1
    /\ UNCHANGED <<envVars, attempts, permanent_failures, retry_queue,
                   managerVars, serviceVars, dry_destructive>>
    /\ UNCHANGED outsideStore

\* _scan_torrents_symlinks: a torrent matched to broken links is upserted with
\* status symlink_broken and priority 3; its hash is not validated
scan_torrents_symlinks(t) ==
    /\ mpc = "idle"
    /\ ops_started < MaxOps
    /\ t \in symlinks
    /\ \E hv \in BOOLEAN :
          /\ torrents[t].present => hv = torrents[t].hash_valid
          /\ torrents' = Upsert(torrents, t, "symlink_broken",
                                SYMLINK_PRIORITY, hv)
    /\ ops_started' = ops_started + 1
    /\ UNCHANGED <<envVars, attempts, permanent_failures, retry_queue,
                   managerVars, serviceVars, dry_destructive>>
    /\ UNCHANGED outsideStore

\* a cycle starts with the list cand, in mode mode
StartCycle(cand, mode) ==
    /\ m_todo' = TodoOf(cand)
    /\ mpc' = IF cand = <<>> THEN "idle" ELSE "loop"
    /\ m_mode' = IF cand = <<>> THEN "none" ELSE mode
    /\ ops_started' = ops_started + 1
    /\ UNCHANGED <<envVars, tableVars, m_steps, m_err, m_rows, m_side_effect,
                   serviceVars, dry_destructive>>

\* process_reinjections / reinject_failed_torrents('all'):
\* get_reinjection_candidates calls get_failed_torrents, sorts and keeps the
\* first max_torrents_per_cycle
process_reinjections ==
    /\ mpc = "idle"
    /\ ops_started < MaxOps
    /\ \E sq \in QueryOrder(FailedRows), max_candidates \in 1..MaxPerCycle :
          StartCycle(SeqTake(SortedCandidates(sq), max_candidates),
                     "candidates")
    /\ UNCHANGED outsideStore

\* reinject_failed_torrents('symlinks'): the rows with status symlink_broken,
\* cut to limit when one is given (0: none)
reinject_failed_torrents ==
    /\ mpc = "idle"
    /\ ops_started < MaxOps
    /\ \E sq \in QueryOrder(SymlinkBrokenRows), limit \in 0..MaxPerCycle :
          StartCycle(IF limit > 0 THEN SeqTake(sq, limit) ELSE sq, "symlinks")
    /\ UNCHANGED outsideStore

\* process_pending_retries: the due rows of the retry queue
process_pending_retries ==
    /\ mpc = "idle"
    /\ ops_started < MaxOps
    /\ \E sq \in RetryOrder(DueRetries) : StartCycle(sq, "retries")
    /\ UNCHANGED outsideStore

\* reinject_torrent, lines 484-528, for the head of the list: a due retry whose
\* torrent row is gone is skipped (_retry_to_torrent_record, "continue"); an
\* invalid hash returns False; in dry-run the simulated Attempt is recorded
\* and True is returned; otherwise add_magnet is sent
reinject_torrent ==
    /\ mpc = "loop"
    /\ LET t == Head(m_todo).id
       IN  IF m_mode = "retries" /\ ~torrents[t].present
           THEN /\ m_todo' = Tail(m_todo)
                /\ mpc' = IF Tail(m_todo) = <<>> THEN "idle" ELSE "loop"
                /\ m_mode' = IF Tail(m_todo) = <<>> THEN "none" ELSE m_mode
                /\ UNCHANGED <<tableVars, m_steps, m_err, m_rows,
                               m_side_effect, dry_destructive>>
           ELSE IF ~torrents[t].hash_valid
           THEN /\ ReinjectReturns(FALSE)
                /\ UNCHANGED <<torrents, attempts, permanent_failures,
                               dry_destructive>>
           ELSE IF SimulateOnly
           THEN /\ attempts' = AttemptRows(attempts, t, "dry_run")
                /\ torrents' = AttemptCounted(torrents, t)
                /\ m_rows' = RowsWritten
                /\ m_err' = "simulated"
                /\ mpc' = "returning"
                /\ UNCHANGED <<permanent_failures, retry_queue, m_mode,
                               m_todo, m_steps, m_side_effect,
                               dry_destructive>>
           ELSE /\ mpc' = "add_magnet"
                /\ dry_destructive' =
                     IF dry_run THEN dry_destructive \cup {"add_magnet"}
                     ELSE dry_destructive
                /\ UNCHANGED <<tableVars, m_mode, m_todo, m_steps, m_err,
                               m_rows, m_side_effect>>
    /\ UNCHANGED <<envVars, serviceVars, ops_started>>
    /\ UNCHANGED outsideStore

\* lines 528-543 and 561-576: add_magnet answers.  Success: the Attempt is
\* recorded and True returned.  An answer whose handling raises: the except
\* branch records a failed Attempt and returns False.  An api_error: lines
\* 544-559 follow.
add_magnet_returns ==
    /\ mpc = "add_magnet"
    /\ LET t == Head(m_todo).id
       IN  \E outcome \in ApiOutcomes :
             IF outcome \in {"ok", "exception"}
             THEN /\ attempts' = AttemptRows(attempts, t,
                                   IF outcome = "ok" THEN "success" ELSE "failed")
                  /\ torrents' = AttemptCounted(torrents, t)
                  /\ m_rows' = RowsWritten
                  /\ mpc' = "returning"
                  /\ m_err' = outcome
                  /\ UNCHANGED m_steps
             ELSE /\ m_err' = outcome
                  /\ m_steps' = FailureSteps
                  /\ mpc' = "failed"
                  /\ UNCHANGED <<torrents, attempts, m_rows>>
    /\ UNCHANGED <<envVars, permanent_failures, retry_queue, m_mode, m_todo,
                   m_side_effect, serviceVars, ops_started, dry_destructive>>
    /\ UNCHANGED outsideStore

\* "return True, ..." of line 525 or 543, or "return False, error" of line 576,
\* reaches the loop
reinject_torrent_returns ==
    /\ mpc = "returning"
    /\ ReinjectReturns(m_err \in {"ok", "simulated"})
    /\ UNCHANGED <<envVars, torrents, attempts, permanent_failures,
                   serviceVars, ops_started, dry_destructive>>
    /\ UNCHANGED outsideStore

\* lines 544-559, one call at a time: record_attempt, _handle_post_failure,
\* then "return False, error"
reinject_failure_step ==
    /\ mpc = "failed"
    /\ LET t == Head(m_todo).id
           step == Head(m_steps)
       IN  CASE step = "record_attempt" ->
                  /\ attempts' = AttemptRows(attempts, t, "failed")
                  /\ torrents' = AttemptCounted(torrents, t)
                  /\ m_rows' = m_rows + RowsWritten
                  /\ m_steps' = Tail(m_steps)
                  /\ UNCHANGED <<symlinks, permanent_failures, retry_queue,
                                 mpc, m_mode, m_todo, m_err, m_side_effect,
                                 dry_destructive>>
             [] step = "handle_post_failure" ->
                  \E reachable \in BOOLEAN :
                     LET h == HandleFailure(t, m_err, reachable)
                     IN  /\ permanent_failures' = h.pf
                         /\ retry_queue' = h.rq
                         /\ symlinks' = h.links
                         /\ dry_destructive' =
                              IF dry_run THEN dry_destructive \cup h.calls
                              ELSE dry_destructive
                         /\ m_side_effect' = (m_side_effect \/ h.acted)
                         /\ m_steps' = Tail(m_steps)
                         /\ UNCHANGED <<torrents, attempts, mpc, m_mode,
                                        m_todo, m_err, m_rows>>
             [] OTHER ->
                  /\ ReinjectReturns(FALSE)
                  /\ UNCHANGED <<symlinks, torrents, attempts,
                                 permanent_failures, dry_destructive>>
    /\ UNCHANGED <<clock, dry_run, store_up, serviceVars, ops_started>>
    /\ UNCHANGED outsideStore

\* TorrentService.reinject_torrent, lines 207-226: the row is read (a missing
\* one raises ValueError before anything is sent), reinject_start is broadcast
\* and the POST to torrents/addMagnet is sent
service_reinject_torrent(t) ==
    /\ spc = "idle"
    /\ ops_started < MaxOps
    /\ torrents[t].present
    /\ spc' = "posting"
    /\ s_cur' = t
    /\ ops_started' = ops_started + 1
    /\ UNCHANGED <<envVars, tableVars, managerVars, dry_destructive>>
    /\ UNCHANGED outsideStore

\* lines 227-285: the POST answers.  A response: an Attempt row with
\* success = (status in 200, 201), attempts_count + 1, last_attempt = now,
\* commit.  An exception: the except branch adds a failed Attempt and
\* attempts_count + 1 (last_attempt is left alone), commits and re-raises.
\* A commit the database refuses leaves nothing.
service_post_returns ==
    /\ spc = "posting"
    /\ \E outcome \in PostOutcomes :
          /\ attempts' = AttemptRows(attempts, s_cur,
                            IF outcome = "ok" THEN "success" ELSE "failed")
          /\ torrents' =
               IF outcome = "exception"
               THEN IF store_up /\ torrents[s_cur].present
                    THEN [torrents EXCEPT ![s_cur].attempts_count = @ + 1]
                    ELSE torrents
               ELSE AttemptCounted(torrents, s_cur)
    /\ spc' = "idle"
    /\ s_cur' = NoTorrent
    /\ UNCHANGED <<envVars, permanent_failures, retry_queue, managerVars, ops_started,
                   dry_destructive>>
    /\ UNCHANGED outsideStore

\* the task is cancelled while it awaits the POST: CancelledError is not an
\* Exception, the except branch of line 262 does not run; finally closes the
\* session
service_task_cancelled ==
    /\ spc = "posting"
    /\ spc' = "idle"
    /\ s_cur' = NoTorrent
    /\ UNCHANGED <<envVars, tableVars, managerVars, ops_started, dry_destructive>>
    /\ UNCHANGED outsideStore

\* three hours pass, between cycles
AdvanceClock ==
    /\ mpc = "idle"
    /\ spc = "idle"
    /\ clock < MaxClock
    /\ clock' = clock + 1
    /\ UNCHANGED <<dry_run, store_up, symlinks, tableVars, managerVars,
                   serviceVars, ops_started, dry_destructive>>
    /\ UNCHANGED outsideStore

\* the database starts or stops refusing writes (sqlite3.OperationalError:
\* locked by another connection, disk full)
StoreFault ==
    /\ store_up' = ~store_up
    /\ UNCHANGED <<clock, dry_run, symlinks, tableVars, managerVars,
                   serviceVars, ops_started, dry_destructive>>
    /\ UNCHANGED outsideStore

\* the target of a link of torrent t disappears: the link is broken
LinkBreaks(t) ==
    /\ t \notin symlinks
    /\ symlinks' = symlinks \cup {t}
    /\ UNCHANGED <<clock, dry_run, store_up, tableVars, managerVars,
                   serviceVars, ops_started, dry_destructive>>
    /\ UNCHANGED outsideStore

\* main.py lines 62-72: the program is started again and the other mode is
\* chosen; the database file is the same
choose_execution_mode ==
    /\ mpc = "idle"
    /\ hpc = "idle"
    /\ dry_run' = ~dry_run
    /\ UNCHANGED <<clock, store_up, symlinks, tableVars, managerVars,
                   serviceVars, ops_started, dry_destructive>>
    /\ UNCHANGED outsideStore

\* cleanup_old_data: inside one transaction it deletes the Attempt rows older
\* than the retention period and then executes VACUUM, which SQLite refuses
\* inside a transaction: get_cursor rolls the deletions back and (0, 0) is
\* returned.  The tables are left as they were.
cleanup_old_data ==
    /\ mpc = "idle"
    /\ UNCHANGED storeVars
    /\ UNCHANGED outsideStore

StoreNext ==
    \/ \E t \in TorrentIds : scan_torrents(t)
    \/ \E t \in TorrentIds : scan_torrents_symlinks(t)
    \/ process_reinjections
    \/ reinject_failed_torrents
    \/ process_pending_retries
    \/ reinject_torrent
    \/ add_magnet_returns
    \/ reinject_torrent_returns
    \/ reinject_failure_step
    \/ \E t \in TorrentIds : service_reinject_torrent(t)
    \/ service_post_returns
    \/ service_task_cancelled
    \/ AdvanceClock
    \/ StoreFault
    \/ \E t \in TorrentIds : LinkBreaks(t)
    \/ choose_execution_mode
    \/ cleanup_old_data

\* the cycles of main.py that re-submit (process_reinjections, then
\* process_pending_retries), without scans, links and the backend service
RetryNext ==
    \/ process_reinjections
    \/ process_pending_retries
    \/ reinject_torrent
    \/ add_magnet_returns
    \/ reinject_torrent_returns
    \/ reinject_failure_step
    \/ AdvanceClock
    \/ StoreFault
    \/ choose_execution_mode

(***************************************************************************)
(* Claims about the Store and the re-submissions (checked under SpecStore). *)
(***************************************************************************)

\* the Attempt rows that reference torrent t
TotalRows(t) ==
    attempts[t]["success"] + attempts[t]["dry_run"] + attempts[t]["failed"]

\* the step with which a re-submission of the manager that sent add_magnet
\* comes back to the loop of its cycle
ManagerSubmissionEnds ==
    /\ \/ mpc = "returning" /\ m_err # "simulated"
       \/ mpc = "failed" /\ m_steps = <<"return">>
    /\ mpc' \in {"idle", "loop"}

\* the step with which a re-submission of TorrentService that sent its POST
\* ends, by an answer, an exception or a cancellation
ServiceSubmissionEnds == spc = "posting" /\ spc' = "idle"

\* C2: every re-submission that reached the transport call has left exactly
\* one Attempt row for its torrent when it ends, whether the call succeeded,
\* failed, raised, or the task was cancelled while the call was in flight.
C2_ExactlyOneAttemptPerSubmission ==
    [][/\ ManagerSubmissionEnds => m_rows = 1
       /\ ServiceSubmissionEnds =>
             \A t \in TorrentIds :
                 t = s_cur => TotalRows(t)' = TotalRows(t) + 1]_storeVars

\* C3: within a re-submission that failed at the provider, the FailureHandler
\* has acted (PermanentFailure row, RetryQueue row, link deletion, indexer
\* POST) only if the Attempt row of that re-submission has been written.
C3_AttemptBeforeSideEffects == m_side_effect => m_rows >= 1

\* C4: in dry-run mode no add_magnet request is sent, no link is deleted and
\* no indexer POST is issued, whatever scans, re-submissions, failure
\* handling and deferred retries run.
C4_DryRunNotDestructive == dry_destructive = {}

\* C4 witness: in dry-run mode, the deferred retry of a row that a real-mode
\* failure had queued has just been simulated: its Attempt row is written and
\* the retry is about to leave the queue, with no destructive call made.
C4_Witness ==
    /\ dry_run
    /\ m_mode = "retries"
    /\ mpc = "returning"
    /\ m_err = "simulated"
    /\ m_rows = 1
    /\ attempts["t1"]["dry_run"] >= 1
    /\ attempts["t1"]["failed"] >= 1
    /\ retry_queue["t1"].present

\* the last attempt of t lies within the retry-hold window
WithinHold(t) ==
    /\ torrents[t].last_attempt # NULL
    /\ clock - torrents[t].last_attempt <= HOLD

\* C5: whatever upserts and attempts came before, get_failed_torrents returns
\* no torrent with attempts_count at or above MAX_ATTEMPTS and none whose last
\* attempt lies within the retry-hold window.
C5_FailedRowsFilter ==
    \A t \in FailedRows :
        /\ torrents[t].attempts_count < MAX_ATTEMPTS
        /\ ~WithinHold(t)

\* C5 witness: a cycle runs on what get_failed_torrents returned: a torrent
\* one attempt short of MAX_ATTEMPTS whose last attempt has left the window.
C5_Witness ==
    /\ m_mode = "candidates"
    /\ mpc = "loop"
    /\ torrents[Head(m_todo).id].attempts_count = MAX_ATTEMPTS - 1
    /\ torrents[Head(m_todo).id].last_attempt # NULL

\* C6: each failed deferred retry leaves its RetryQueue row with a retry_count
\* one above the retry_count the row had when it was read as due, whatever
\* error the retry reported (so that the row stops being due after MAX
\* failed retries).
C6_FailedRetryIncrements ==
    [][\A t \in TorrentIds :
          ( /\ m_mode = "retries"
            /\ mpc # "idle"
            /\ m_todo' = Tail(m_todo)
            /\ Head(m_todo).id = t
            /\ torrents[t].present
            /\ store_up
            /\ retry_queue'[t].present )
          => retry_queue'[t].retry_count = Head(m_todo).retry_count + 1]_storeVars

\* The database of a run that starts after an earlier run has scanned t1
\* (magnet_error), re-submitted it once and had the provider answer
\* too_many_requests: one failed Attempt, and the RetryQueue row that
\* _handle_rate_limit scheduled.  SpecStore reaches this state after two
\* operations (AfterScheduledFailure below).
RetryInit ==
    /\ clock = 0
    /\ dry_run = FALSE
    /\ store_up = TRUE
    /\ symlinks = {}
    /\ torrents = [t \in TorrentIds |->
                     [NoRow EXCEPT !.present = TRUE, !.status = "magnet_error",
                                   !.attempts_count = 1, !.last_attempt = 0]]
    /\ attempts = [t \in TorrentIds |->
                     [k \in AttemptKinds |-> IF k = "failed" THEN 1 ELSE 0]]
    /\ permanent_failures = [t \in TorrentIds |-> "none"]
    /\ retry_queue = [t \in TorrentIds |->
                        [present |-> TRUE, retry_count |-> 0,
                         original_failure |-> 0, scheduled_retry |-> HOLD]]
    /\ mpc = "idle"
    /\ m_mode = "none"
    /\ m_todo = <<>>
    /\ m_steps = <<>>
    /\ m_err = "none"
    /\ m_rows = 0
    /\ m_side_effect = FALSE
    /\ spc = "idle"
    /\ s_cur = NoTorrent
    /\ ops_started = 0
    /\ dry_destructive = {}

\* the state of RetryInit as SpecStore reaches it (there two operations have
\* been counted)
AfterScheduledFailure ==
    /\ <<clock, dry_run, store_up, symlinks>> = <<0, FALSE, TRUE, {}>>
    /\ \A t \in TorrentIds :
          /\ torrents[t] = [NoRow EXCEPT !.present = TRUE,
                                         !.status = "magnet_error",
                                         !.attempts_count = 1,
                                         !.last_attempt = 0]
          /\ attempts[t] = [k \in AttemptKinds |->
                              IF k = "failed" THEN 1 ELSE 0]
          /\ permanent_failures[t] = "none"
          /\ retry_queue[t] = [present |-> TRUE, retry_count |-> 0,
                               original_failure |-> 0,
                               scheduled_retry |-> HOLD]
    /\ mpc = "idle" /\ m_mode = "none" /\ m_todo = <<>> /\ m_steps = <<>>
    /\ m_err = "none" /\ m_rows = 0 /\ m_side_effect = FALSE
    /\ spc = "idle" /\ s_cur = NoTorrent /\ dry_destructive = {}

\* C14: in every reachable state of the Store, every RetryQueue row has
\* retry_count <= MAX (3) and scheduled_retry >= original_failure, after any
\* sequence of scheduled retries, failed retries and re-scheduled failures of
\* the same torrent.
C14_RetryRowsWithinBounds ==
    \A t \in TorrentIds :
        retry_queue[t].present
            => /\ retry_queue[t].retry_count <= MAX_RETRY
               /\ retry_queue[t].scheduled_retry
                     >= retry_queue[t].original_failure

\* C14 witness: a row that has been through MAX failed retries, re-scheduled
\* by the first two, and that a further call of process_pending_retries has
\* found not due although its scheduled_retry has passed.
C14_Witness ==
    \E t \in TorrentIds :
        /\ retry_queue[t].present
        /\ retry_queue[t].retry_count = MAX_RETRY
        /\ retry_queue[t].scheduled_retry
              > retry_queue[t].original_failure + HOLD
        /\ retry_queue[t].scheduled_retry <= clock
        /\ attempts[t]["failed"] = 1 + MAX_RETRY
        /\ ops_started = MAX_RETRY + 1
        /\ mpc = "idle"

\* the step in which handle_failure handles a too_many_requests failure of
\* the torrent at the head of the cycle's list
HandlesRateLimit ==
    /\ mpc = "failed"
    /\ m_steps # <<>>
    /\ Head(m_steps) = "handle_post_failure"
    /\ m_err = "too_many_requests"
    /\ m_steps' = Tail(m_steps)

\* C16: handling a too_many_requests failure leaves exactly one RetryQueue
\* row for that torrent with retry_count = 0 and scheduled_retry = failure
\* time + HOLD (3 h), creates no PermanentFailure row, deletes no link and
\* leaves the torrent's own row unchanged.
C16_RateLimitHandlingFrame ==
    [][HandlesRateLimit
          => LET t == Head(m_todo).id
             IN  /\ retry_queue'[t].present
                 /\ retry_queue'[t].retry_count = 0
                 /\ retry_queue'[t].scheduled_retry = clock + HOLD
                 /\ permanent_failures' = permanent_failures
                 /\ symlinks' = symlinks
                 /\ torrents' = torrents]_storeVars

\* the step in which a re-submission of the manager calls record_attempt
\* while the database refuses writes: the simulated Attempt of dry-run, the
\* Attempt after an answer of add_magnet, the Attempt of the except branch,
\* or the Attempt after an api_error
AttemptWriteFails ==
    /\ ~store_up
    /\ \/ mpc = "loop" /\ mpc' = "returning"
       \/ mpc = "add_magnet" /\ mpc' = "returning"
       \/ /\ mpc = "failed"
          /\ m_steps # <<>>
          /\ Head(m_steps) = "record_attempt"
          /\ m_steps' = Tail(m_steps)

\* the step in which the FailureHandler handles the failure of the current
\* re-submission
HandlerRuns ==
    /\ mpc = "failed"
    /\ m_steps # <<>>
    /\ Head(m_steps) = "handle_post_failure"
    /\ m_steps' = Tail(m_steps)

\* the step in which process_pending_retries removes the row of a retry that
\* reinject_torrent reported as successful
RetryRowRemoved ==
    /\ m_mode = "retries"
    /\ mpc = "returning"
    /\ mpc' \in {"idle", "loop"}
    /\ retry_queue[Head(m_todo).id].present
    /\ ~retry_queue'[Head(m_todo).id].present

\* C24: a Store write failure during a unit of work is propagated and the
\* unit aborted: a re-submission whose Attempt could not be written does not
\* go on to report success, and neither the FailureHandler nor the removal
\* of the retry row runs in a unit whose Attempt was not written.
C24_WriteFailureAbortsUnit ==
    [][/\ AttemptWriteFails
            => ~(mpc' = "returning" /\ m_err' \in {"ok", "simulated"})
       /\ HandlerRuns => m_rows >= 1
       /\ RetryRowRemoved => m_rows >= 1]_storeVars

\* FAILED_SET of the specification: the statuses of config.FAILED_STATUSES
\* and symlink_broken
FAILED_SET == FAILED_STATUSES \cup {"symlink_broken"}

\* C25: a torrent whose status is in FAILED_SET (symlink_broken included),
\* with attempts_count below MAX_ATTEMPTS and no attempt within the hold
\* window, is among the rows get_failed_torrents returns.
C25_FailedSetIsSelected ==
    \A t \in TorrentIds :
        ( /\ torrents[t].present
          /\ torrents[t].status \in FAILED_SET
          /\ torrents[t].attempts_count < MAX_ATTEMPTS
          /\ ~WithinHold(t) )
        => t \in FailedRows

C36_AttemptsNeverExceedMax ==
    \A t \in TorrentIds : torrents[t].attempts_count <= MAX_ATTEMPTS

(***************************************************************************)
(*                 PART 3 - opening the Store (database.py)                *)
(*                                                                         *)
(* get_database() builds one DatabaseManager per process; its constructor  *)
(* runs setup_database, which creates the base tables and migrates the     *)
(* schema.  DatabaseManager._lock is a threading.Lock: it has no owner and *)
(* is not reentrant, so an acquire by the thread that holds it waits until *)
(* somebody releases it.                                                   *)
(***************************************************************************)

\* the processes that open the same database file (main.py, the scanner)
Processes == {"p1", "p2"}

\* DatabaseManager.current_version
current_version == 2

\* the user_version values a database file can carry
SchemaVersions == 0 .. current_version

OpenInit ==
    /\ db_version = 0
    /\ db_tables = FALSE
    /\ db_column = FALSE
    /\ opc = [p \in Processes |-> "closed"]
    /\ db_lock = [p \in Processes |-> FALSE]
    /\ db_instance = [p \in Processes |-> FALSE]

\* the database file was left by an earlier run: its version, and whether
\* its torrents table already has the column added by the v2 migration
ExistingDatabase(v, col) ==
    /\ \A p \in Processes : opc[p] = "closed"
    /\ ~db_tables
    /\ v >= 2 => col
    /\ db_version' = v
    /\ db_tables' = TRUE
    /\ db_column' = col
    /\ UNCHANGED <<opc, db_lock, db_instance>>
    /\ UNCHANGED outsideOpen

\* get_database, first call of a process: _db_instance is None, so the
\* DatabaseManager is constructed (__init__ creates the lock, free, and calls
\* setup_database)
get_database(p) ==
    /\ opc[p] = "closed"
    /\ ~db_instance[p]
    /\ db_lock' = [db_lock EXCEPT ![p] = FALSE]
    /\ opc' = [opc EXCEPT ![p] = "setup_database"]
    /\ UNCHANGED <<db_version, db_tables, db_column, db_instance>>
    /\ UNCHANGED outsideOpen

\* setup_database, line 160: "with self._lock:"
setup_database(p) ==
    /\ opc[p] = "setup_database"
    /\ ~db_lock[p]
    /\ db_lock' = [db_lock EXCEPT ![p] = TRUE]
    /\ opc' = [opc EXCEPT ![p] = "create_base_tables"]
    /\ UNCHANGED <<db_version, db_tables, db_column, db_instance>>
    /\ UNCHANGED outsideOpen

\* _create_base_tables: CREATE TABLE IF NOT EXISTS ...; a database error is
\* re-raised by get_cursor, leaves the "with" of setup_database (releasing
\* the lock) and the constructor
create_base_tables(p) ==
    /\ opc[p] = "create_base_tables"
    /\ \E ok \in BOOLEAN :
          IF ok
          THEN /\ db_tables' = TRUE
               /\ opc' = [opc EXCEPT ![p] = "migrate_database"]
               /\ UNCHANGED db_lock
          ELSE /\ opc' = [opc EXCEPT ![p] = "raised"]
               /\ db_lock' = [db_lock EXCEPT ![p] = FALSE]
               /\ UNCHANGED db_tables
    /\ UNCHANGED <<db_version, db_column, db_instance>>
    /\ UNCHANGED outsideOpen

\* get_schema_version: PRAGMA user_version, 0 when the read raises
get_schema_version(readable) == IF readable THEN db_version ELSE 0

\* migrate_database.  At "migrate_database" it reads the version (line 106)
\* and, when it is below current_version, goes on to "with self._lock:"
\* (line 113).  At "acquire_lock" it waits for the lock to be free, and then
\* runs _migrate_to_v2 (the column is added unless present; an error is
\* re-raised through lines 126-128 and both "with" blocks) and
\* set_schema_version (whose errors are only logged); leaving the "with"
\* releases the lock again.
migrate_database(p) ==
    /\ opc[p] \in {"migrate_database", "acquire_lock"}
    /\ IF opc[p] = "migrate_database"
       THEN /\ \E readable \in BOOLEAN :
                  opc' = [opc EXCEPT ![p] =
                             IF get_schema_version(readable) < current_version
                             THEN "acquire_lock"
                             ELSE "returning"]
            /\ UNCHANGED <<db_version, db_column, db_lock>>
       ELSE /\ ~db_lock[p]
            /\ \E migrated \in BOOLEAN, written \in BOOLEAN :
                  IF migrated
                  THEN /\ db_column' = TRUE
                       /\ db_version' = IF written THEN current_version
                                        ELSE db_version
                       /\ opc' = [opc EXCEPT ![p] = "returning"]
                  ELSE /\ opc' = [opc EXCEPT ![p] = "raised"]
                       /\ UNCHANGED <<db_version, db_column>>
            /\ UNCHANGED db_lock
    /\ UNCHANGED <<db_tables, db_instance>>
    /\ UNCHANGED outsideOpen

\* setup_database leaves its "with" (line 167), the constructor returns and
\* get_database stores the instance
setup_database_returns(p) ==
    /\ opc[p] = "returning"
    /\ db_lock' = [db_lock EXCEPT ![p] = FALSE]
    /\ db_instance' = [db_instance EXCEPT ![p] = TRUE]
    /\ opc' = [opc EXCEPT ![p] = "opened"]
    /\ UNCHANGED <<db_version, db_tables, db_column>>
    /\ UNCHANGED outsideOpen

\* the process ends after its open returned or raised; a later run of it
\* starts without an instance
ProcessExits(p) ==
    /\ opc[p] \in {"opened", "raised"}
    /\ opc' = [opc EXCEPT ![p] = "closed"]
    /\ db_instance' = [db_instance EXCEPT ![p] = FALSE]
    /\ UNCHANGED <<db_version, db_tables, db_column, db_lock>>
    /\ UNCHANGED outsideOpen

\* the steps of the thread of p that is inside the constructor
OpenStep(p) ==
    \/ setup_database(p)
    \/ create_base_tables(p)
    \/ migrate_database(p)
    \/ setup_database_returns(p)

OpenNext ==
    \/ \E v \in SchemaVersions, col \in BOOLEAN : ExistingDatabase(v, col)
    \/ \E p \in Processes : get_database(p)
    \/ \E p \in Processes : setup_database(p)
    \/ \E p \in Processes : create_base_tables(p)
    \/ \E p \in Processes : migrate_database(p)
    \/ \E p \in Processes : setup_database_returns(p)
    \/ \E p \in Processes : ProcessExits(p)

\* C7: an open of the Store that has started on a database file whose
\* user_version is below current_version (a fresh file included) terminates:
\* it returns with the stored version equal to current_version (or it raises
\* a database error).
C7_OpenTerminates ==
    \A p \in Processes :
        (opc[p] = "setup_database" /\ db_version < current_version)
            ~> ( \/ opc[p] = "opened" /\ db_version = current_version
                 \/ opc[p] = "raised" )

\* the schema of the database file: its tables and the column and index of
\* the v2 migration
Schema == <<db_tables, db_column>>

\* C31: running the migrations on a database that already has what they
\* add leaves the schema (and, once it is current, the stored version)
\* unchanged and raises no error; a migration step whose column already
\* exists is detected and skipped, so the open of a database that has the
\* column but a stored version below current_version returns with the
\* version brought to current_version (or raises a database error).
C31_MigrationsAreIdempotent ==
    /\ [][(db_tables /\ db_column /\ \E p \in Processes : opc[p] # "closed")
            => /\ Schema' = Schema
               /\ db_version = current_version => db_version' = db_version]_openVars
    /\ \A p \in Processes :
          (opc[p] = "setup_database" /\ db_column
                /\ db_version < current_version)
              ~> ( \/ opc[p] = "opened" /\ db_version = current_version
                                       /\ db_column
                   \/ opc[p] = "raised" )

(***************************************************************************)
(*               PART 4 - RealDebridClient (rd_client.py)                  *)
(*                                                                         *)
(* One thread calls the client.  Times and delays are in units of 0.1 ms,  *)
(* and a product or quotient of a delay is rounded down to that unit.      *)
(***************************************************************************)

\* --- bounds of the client model
\* client calls made in one behaviour
MaxRequests == 6

\* seconds that pass between the calls of one behaviour
MaxClientTime == 2

\* --- program constants
SECOND == 10000

initial_delay == 10000

min_delay == 5000

max_delay == 300000

initial_torrents_per_cycle == 1

max_torrents_limit == 50

RECOVERY_STREAK == 5

RATE_LIMIT_STEP == 2

ClientMethods ==
    {"get_torrents", "get_torrent_info", "add_magnet", "delete_torrent",
     "get_user_info"}

\* what comes back from session.request: a 200 with the expected JSON, a 200
\* with JSON of another shape, a 200 without JSON, a 401/403, a status in
\* rate_limit_codes, another status, or one of the three exceptions
Responses ==
    {"ok", "ok_other_shape", "bad_json", "unauthorized", "rate_limit",
     "http_error", "timeout", "connection_error", "unexpected"}

ClientInit ==
    /\ c_time = 0
    /\ cpc = "idle"
    /\ c_method = "get_user_info"
    /\ current_delay = initial_delay
    /\ last_request_time = 0
    /\ requests_count = 0
    /\ errors_count = 0
    /\ success_streak = 0
    /\ max_torrents_per_cycle = initial_torrents_per_cycle
    /\ http_sent = 0
    /\ c_result = FALSE

\* current_delay * backoff_multiplier (1.5)
Backoff(d) == (d * 3) \div 2

\* current_delay * backoff_multiplier * 2, with the factor 2 left out
BackoffTwice_Once(d) == (d * 3) \div 2

\* current_delay * backoff_multiplier * 2 (line 116): the product, rounded
\* once
BackoffTwice(d) == (d * 3 * 2) \div 2

\* current_delay / recovery_divisor (1.1)
Recovery(d) == (d * 10) \div 11

\* _wait_for_rate_limit: the instant at which it returns
WaitForRateLimit ==
    IF c_time - last_request_time < current_delay
    THEN last_request_time + current_delay
    ELSE c_time

\* _make_request up to session.request: the rate-limit wait, then the HTTP
\* request leaves
make_request(method) ==
    /\ cpc = "idle"
    /\ http_sent < MaxRequests
    /\ c_time' = WaitForRateLimit
    /\ last_request_time' = WaitForRateLimit
    /\ http_sent' = http_sent + 1
    /\ c_method' = method
    /\ cpc' = "http"
    /\ UNCHANGED <<current_delay, requests_count, errors_count,
                   success_streak, max_torrents_per_cycle, c_result>>
    /\ UNCHANGED outsideClient

get_torrents == make_request("get_torrents")

get_torrent_info == make_request("get_torrent_info")

add_magnet == make_request("add_magnet")

delete_torrent == make_request("delete_torrent")

get_user_info == make_request("get_user_info")

\* _update_rate_limit(success, response_code), rate_code: the response code
\* is one of rate_limit_codes
update_rate_limit(success, rate_code) ==
    /\ requests_count' = requests_count + 1
    /\ IF success /\ ~rate_code
       THEN /\ errors_count' = Max(0, errors_count - 1)
            /\ IF success_streak + 1 >= RECOVERY_STREAK
               THEN /\ current_delay' = Max(min_delay, Recovery(current_delay))
                    /\ success_streak' = 0
                    /\ max_torrents_per_cycle' =
                          IF max_torrents_per_cycle < max_torrents_limit
                          THEN Min(max_torrents_limit,
                                   max_torrents_per_cycle + 1)
                          ELSE max_torrents_per_cycle
               ELSE /\ success_streak' = success_streak + 1
                    /\ UNCHANGED <<current_delay, max_torrents_per_cycle>>
       ELSE /\ errors_count' = errors_count + 1
            /\ success_streak' = 0
            /\ IF rate_code
               THEN /\ current_delay' =
                          Min(max_delay, BackoffTwice(current_delay))
                    /\ max_torrents_per_cycle' =
                          Max(1, max_torrents_per_cycle - RATE_LIMIT_STEP)
               ELSE /\ current_delay' =
                          Min(max_delay, Backoff(current_delay))
                    /\ UNCHANGED max_torrents_per_cycle

\* the success flag the method returns for a response
MethodResult(method, r) ==
    \/ r = "ok"
    \/ r = "ok_other_shape" /\ method # "get_torrents"

\* the rest of _make_request and of the method that called it
make_request_returns(r) ==
    /\ cpc = "http"
    /\ update_rate_limit(r \in {"ok", "ok_other_shape", "bad_json"},
                         r = "rate_limit")
    /\ c_result' = MethodResult(c_method, r)
    /\ cpc' = "idle"
    /\ UNCHANGED <<c_time, c_method, last_request_time, http_sent>>
    /\ UNCHANGED outsideClient

\* a second passes between two calls
ClientTimePasses ==
    /\ cpc = "idle"
    /\ c_time < MaxClientTime * SECOND
    /\ c_time' = c_time + SECOND
    /\ UNCHANGED <<cpc, c_method, current_delay, last_request_time,
                   requests_count, errors_count, success_streak,
                   max_torrents_per_cycle, http_sent, c_result>>
    /\ UNCHANGED outsideClient

ClientNext ==
    \/ get_torrents
    \/ get_torrent_info
    \/ add_magnet
    \/ delete_torrent
    \/ get_user_info
    \/ \E r \in Responses : make_request_returns(r)
    \/ ClientTimePasses

\* runs of five successes behind the client of WarmClientInit
WarmRecoveries == 4

\* current_delay after n runs of RECOVERY_STREAK successes
RECURSIVE RecoveredDelay(_)
RecoveredDelay(n) ==
    IF n = 0 THEN initial_delay
    ELSE Max(min_delay, Recovery(RecoveredDelay(n - 1)))

\* max_torrents_per_cycle after n runs of RECOVERY_STREAK successes
RecoveredCycle(n) == Min(max_torrents_limit, initial_torrents_per_cycle + n)

\* The client after WarmRecoveries * RECOVERY_STREAK successful requests
\* in a row: the delay has come down and the per-cycle count has gone up
\* by one every five successes.  http_sent counts from this state on.
WarmClientInit ==
    /\ c_time = 0
    /\ cpc = "idle"
    /\ c_method = "get_user_info"
    /\ current_delay = RecoveredDelay(WarmRecoveries)
    /\ last_request_time = 0
    /\ requests_count = RECOVERY_STREAK * WarmRecoveries
    /\ errors_count = 0
    /\ success_streak = 0
    /\ max_torrents_per_cycle = RecoveredCycle(WarmRecoveries)
    /\ http_sent = 0
    /\ c_result = TRUE

C10_SlotBeforeEveryRequest == http_sent <= Len(admissions)

(***************************************************************************)
(*     PART 5 - the backend application (backend/app: the scheduler's      *)
(*     auto-reinject job, the reinject and delete routes, TorrentService)  *)
(*                                                                         *)
(* The job and the requests are tasks of one event loop; each has its own  *)
(* SQLAlchemy session (SessionLocal()).  A task runs without interruption  *)
(* from one await that suspends to the next; the POST to the provider      *)
(* always suspends.  A session keeps the attributes of an object it loaded *)
(* until that session commits.  Time is in ticks of 3 hours.               *)
(***************************************************************************)

\* --- bounds of the backend model
BackendIds == {"t1", "t2"}

\* the auto-reinject job of the scheduler, and the handler of one request
Tasks == {"job", "request"}

\* the clock stops here
MaxBackendTime == 2

\* scans, jobs, requests and deletions of one behaviour
MaxBackendOps == 4

\* --- program constants
\* "Torrent.attempts_count < 3" of TorrentService.get_failed_torrents
BACKEND_MAX_ATTEMPTS == 3

\* "timedelta(hours=3)" of TorrentService.get_failed_torrents, in ticks
BACKEND_HOLD == 1

\* get_failed_torrents(db, limit=20) of _auto_reinject
AUTO_REINJECT_LIMIT == 20

BackendStatuses == {"magnet_error", "downloaded"}

NoBackendRow ==
    [present |-> FALSE, status |-> "none", attempts_count |-> 0,
     last_attempt |-> NULL]

BackendInit ==
    /\ b_now = 0
    /\ b_torrents = [t \in BackendIds |-> NoBackendRow]
    /\ b_attempts = [t \in BackendIds |-> 0]
    /\ bpc = [k \in Tasks |-> "idle"]
    /\ b_todo = [k \in Tasks |-> <<>>]
    /\ b_obj = [k \in Tasks |-> 0]
    /\ b_started = 0

\* TorrentService.get_failed_torrents: the rows its filter keeps
BackendFailedRows ==
    {t \in BackendIds :
        /\ b_torrents[t].present
        /\ b_torrents[t].status \in FAILED_STATUSES
        /\ b_torrents[t].attempts_count < BACKEND_MAX_ATTEMPTS
        /\ \/ b_torrents[t].last_attempt = NULL
           \/ b_torrents[t].last_attempt < b_now - BACKEND_HOLD}

\* reinject_torrent, lines 209-211, for each id of the loop in turn: an id
\* without a row raises ValueError, which the loop catches before it goes on
\* to the next id without suspending
RECURSIVE SkipMissing(_, _)
SkipMissing(seq, tor) ==
    IF seq = <<>> \/ tor[Head(seq)].present
    THEN seq
    ELSE SkipMissing(Tail(seq), tor)

\* the loop of a task goes on with the ids seq, the tables being tor: it
\* runs up to the POST of the first id that has a row, whose object it loads
LoopContinues(k, seq, tor) ==
    LET rest == SkipMissing(seq, tor) IN
    /\ b_todo' = [b_todo EXCEPT ![k] = rest]
    /\ bpc' = [bpc EXCEPT ![k] = IF rest = <<>> THEN "idle" ELSE "post"]
    /\ b_obj' = [b_obj EXCEPT ![k] =
                    IF rest = <<>> THEN 0 ELSE tor[Head(rest)].attempts_count]

\* TorrentService._process_torrent (scan_torrents): a row the provider lists
\* is inserted, or its status updated
backend_process_torrent(t, st) ==
    /\ b_started < MaxBackendOps
    /\ b_started' = b_started + 1
    /\ b_torrents' = [b_torrents EXCEPT ![t] =
                         IF b_torrents[t].present
                         THEN [b_torrents[t] EXCEPT !.status = st]
                         ELSE [NoBackendRow EXCEPT !.present = TRUE,
                                                   !.status = st]]
    /\ UNCHANGED <<b_now, b_attempts, bpc, b_todo, b_obj>>
    /\ UNCHANGED outsideBackend

\* SchedulerService._auto_reinject: get_failed_torrents, then the loop (the
\* rows that tie in the ORDER BY, and the columns it orders by, are left
\* open: any order of the rows)
auto_reinject ==
    /\ bpc["job"] = "idle"
    /\ b_started < MaxBackendOps
    /\ b_started' = b_started + 1
    /\ \E seq \in Perms(BackendFailedRows) :
          LoopContinues("job", SeqTake(seq, AUTO_REINJECT_LIMIT), b_torrents)
    /\ UNCHANGED <<b_now, b_torrents, b_attempts>>
    /\ UNCHANGED outsideBackend

\* the ids a request may name
RequestLists ==
    UNION {Perms(S) : S \in (SUBSET BackendIds) \ {{}}}

\* POST /torrents/reinject: the loop over request.torrent_ids
reinject_torrents(ids) ==
    /\ bpc["request"] = "idle"
    /\ b_started < MaxBackendOps
    /\ b_started' = b_started + 1
    /\ LoopContinues("request", ids, b_torrents)
    /\ UNCHANGED <<b_now, b_torrents, b_attempts>>
    /\ UNCHANGED outsideBackend

\* TorrentService.reinject_torrent after the POST (lines 229-285): the
\* Attempt row and the Torrent object, whose attempts_count is the loaded
\* value plus one, are written in one commit; the path of an exception does
\* not set last_attempt.  If the row was deleted meanwhile the UPDATE matches
\* no row, the commit fails and nothing is written.  Then the loop goes on.
backend_post_returns(k, r) ==
    /\ bpc[k] = "post"
    /\ LET t == Head(b_todo[k])
           written == b_torrents[t].present
           tor == IF written
                  THEN [b_torrents EXCEPT
                          ![t].attempts_count = b_obj[k] + 1,
                          ![t].last_attempt =
                              IF r = "exception" THEN @ ELSE b_now]
                  ELSE b_torrents
       IN /\ b_torrents' = tor
          /\ b_attempts' = IF written
                           THEN [b_attempts EXCEPT ![t] = @ + 1]
                           ELSE b_attempts
          /\ LoopContinues(k, Tail(b_todo[k]), tor)
    /\ UNCHANGED <<b_now, b_started>>
    /\ UNCHANGED outsideBackend

\* the task is cancelled while it awaits the POST: asyncio.CancelledError
\* passes "except Exception" and the loop
backend_task_cancelled(k) ==
    /\ bpc[k] = "post"
    /\ bpc' = [bpc EXCEPT ![k] = "idle"]
    /\ b_todo' = [b_todo EXCEPT ![k] = <<>>]
    /\ b_obj' = [b_obj EXCEPT ![k] = 0]
    /\ UNCHANGED <<b_now, b_torrents, b_attempts, b_started>>
    /\ UNCHANGED outsideBackend

\* DELETE /torrents/{torrent_id}: the Torrent row is deleted (404 without)
backend_delete_torrent(t) ==
    /\ b_torrents[t].present
    /\ b_started < MaxBackendOps
    /\ b_started' = b_started + 1
    /\ b_torrents' = [b_torrents EXCEPT ![t] = NoBackendRow]
    /\ UNCHANGED <<b_now, b_attempts, bpc, b_todo, b_obj>>
    /\ UNCHANGED outsideBackend

BackendTimePasses ==
    /\ b_now < MaxBackendTime
    /\ b_now' = b_now + 1
    /\ UNCHANGED <<b_torrents, b_attempts, bpc, b_todo, b_obj, b_started>>
    /\ UNCHANGED outsideBackend

\* the scans and the re-submissions
BackendResubmitNext ==
    \/ \E t \in BackendIds, st \in BackendStatuses :
          backend_process_torrent(t, st)
    \/ auto_reinject
    \/ \E ids \in RequestLists : reinject_torrents(ids)
    \/ \E k \in Tasks, r \in PostOutcomes : backend_post_returns(k, r)
    \/ \E k \in Tasks : backend_task_cancelled(k)
    \/ BackendTimePasses

BackendNext ==
    \/ BackendResubmitNext
    \/ \E t \in BackendIds : backend_delete_torrent(t)

\* C11: no two re-submissions of one torrent are in progress at the same
\* time, whichever entry points started them.
C11_NoOverlappingResubmission ==
    \A j \in Tasks, k \in Tasks :
        (j # k /\ bpc[j] = "post" /\ bpc[k] = "post")
            => Head(b_todo[j]) # Head(b_todo[k])

\* C12: whenever no re-submission is in progress, the attempts_count of every
\* torrent equals the number of Attempt rows that reference it.
C12_AttemptsCountMatchesRows ==
    (\A k \in Tasks : bpc[k] = "idle")
        => \A t \in BackendIds :
              b_torrents[t].present
                  => b_torrents[t].attempts_count = b_attempts[t]

\* C13: the torrent_id of every Attempt row is the id of an existing Torrent
\* row.
C13_AttemptsReferToTorrents ==
    \A t \in BackendIds : b_attempts[t] > 0 => b_torrents[t].present

(***************************************************************************)
(* PART 6 - the FailureHandler on the media tree (failure_handler.py).     *)
(*                                                                         *)
(* _handle_infringing_file records the PermanentFailure row of a torrent,  *)
(* walks /home/<user>/Medias, removes the broken links whose name matches  *)
(* the torrent's filename and, if deleted_files is not empty, triggers the *)
(* rescans and marks the row processed.  handle_failure is called by       *)
(* TorrentManager.reinject_torrent after add_magnet has failed; in dry-run *)
(* reinject_torrent returns before add_magnet (torrent_manager.py, line    *)
(* 516), so the handler runs in real mode only.                            *)
(***************************************************************************)

\* the places of the media tree where a link can be
MediaLinks == {"l1", "l2"}

\* what is at a place: nothing, a broken link whose name matches the filename
\* (an orphan), a matching link whose target exists, or a broken link of
\* another name
LinkKinds == {"absent", "orphan", "healthy", "other"}

HandlerInit ==
    /\ media = [l \in MediaLinks |-> "absent"]
    /\ unremovable = {}
    /\ h_failure = "none"
    /\ hpc = "idle"
    /\ h_todo = {}
    /\ h_deleted = {}
    /\ h_matched = {}

\* a link is created, breaks, is repaired or is removed by someone else;
\* what is then at the place is not the link an earlier handling matched
MediaChanges(l, k) ==
    /\ hpc = "idle"
    /\ k # media[l]
    /\ media' = [media EXCEPT ![l] = k]
    /\ h_matched' = h_matched \ {l}
    /\ UNCHANGED <<unremovable, h_failure, hpc, h_todo, h_deleted>>
    /\ UNCHANGED outsideHandler

\* the directory of a link stops or starts being writable for the program
PermissionChanges(l) ==
    /\ hpc = "idle"
    /\ unremovable' = IF l \in unremovable THEN unremovable \ {l}
                      ELSE unremovable \cup {l}
    /\ UNCHANGED <<media, h_failure, hpc, h_todo, h_deleted, h_matched>>
    /\ UNCHANGED outsideHandler

\* _handle_infringing_file, lines 56-63: _record_permanent_failure with
\* processed = False (INSERT OR REPLACE, its exception caught and logged),
\* then the walk begins
handle_infringing_file ==
    /\ hpc = "idle"
    /\ ~dry_run
    /\ \E written \in BOOLEAN :
          h_failure' = IF written THEN "unprocessed" ELSE h_failure
    /\ hpc' = "walking"
    /\ h_todo' = {l \in MediaLinks : media[l] # "absent"}
    /\ h_deleted' = {}
    /\ h_matched' = {l \in MediaLinks : media[l] = "orphan"}
    /\ UNCHANGED <<media, unremovable>>
    /\ UNCHANGED outsideHandler

\* _delete_symlink: True without os.remove in dry-run, True after os.remove,
\* False when os.remove raises
DeleteSymlink(l) ==
    IF dry_run THEN [removed |-> FALSE, ok |-> TRUE]
    ELSE IF l \in unremovable THEN [removed |-> FALSE, ok |-> FALSE]
    ELSE [removed |-> TRUE, ok |-> TRUE]

\* _find_and_delete_broken_symlinks, lines 117-128: one file of the walk; a
\* link that matches and is broken is given to _delete_symlink and appended
\* to deleted_files when that answers True
find_and_delete_broken_symlinks(l) ==
    /\ hpc = "walking"
    /\ l \in h_todo
    /\ h_todo' = h_todo \ {l}
    /\ IF media[l] = "orphan"
       THEN /\ media' = IF DeleteSymlink(l).removed
                        THEN [media EXCEPT ![l] = "absent"] ELSE media
            /\ h_deleted' = IF DeleteSymlink(l).ok
                            THEN h_deleted \cup {l} ELSE h_deleted
       ELSE UNCHANGED <<media, h_deleted>>
    /\ UNCHANGED <<unremovable, h_failure, hpc, h_matched>>
    /\ UNCHANGED outsideHandler

\* line 68: "if deleted_files"
AnyDeleted(deleted) == deleted # {}

\* lines 65-76: the walk is over; with deleted files the rescans are
\* triggered (their exceptions are caught per service) and _mark_as_processed
\* updates the row, if there is one and the write is not refused
handle_infringing_file_returns ==
    /\ hpc = "walking"
    /\ h_todo = {}
    /\ hpc' = "idle"
    /\ \E written \in BOOLEAN :
          h_failure' = IF AnyDeleted(h_deleted) /\ written
                          /\ h_failure # "none"
                       THEN "processed" ELSE h_failure
    /\ UNCHANGED <<media, unremovable, h_todo, h_deleted, h_matched>>
    /\ UNCHANGED outsideHandler

HandlerNext ==
    \/ \E l \in MediaLinks, k \in LinkKinds : MediaChanges(l, k)
    \/ \E l \in MediaLinks : PermissionChanges(l)
    \/ handle_infringing_file
    \/ \E l \in MediaLinks : find_and_delete_broken_symlinks(l)
    \/ handle_infringing_file_returns
    \/ choose_execution_mode

\* C15: for every PermanentFailure row with processed = true, every orphan
\* link that matched the failed torrent's filename when the failure was
\* handled has been deleted and no longer exists (in dry-run the handler is
\* not called): when the row becomes processed, none of these links is left.
C15_ProcessedMeansLinksDeleted ==
    [][(h_failure # "processed" /\ h_failure' = "processed")
          => \A l \in h_matched : media'[l] = "absent"]_handlerVars

(***************************************************************************)
(* PART 7 - the full scan (torrent_manager.py, _scan_torrents_full) and    *)
(* its cursor, the row 'full' of scan_progress (database.py).              *)
(*                                                                         *)
(* An invocation reads the cursor, writes (running, 0) unless a running    *)
(* cursor exists, and calls rd_client.get_torrents(limit = 1000, offset =  *)
(* current_offset).  RealDebridClient.get_torrents(self, status_filter,    *)
(* limit) has no parameter offset: the call raises TypeError before any    *)
(* request is sent, and nothing in _scan_torrents_full or scan_torrents    *)
(* catches it.                                                             *)
(***************************************************************************)

\* invocations of one behaviour
MaxScans == 4

\* the clock stops here
MaxScanTime == 3

ScanStatusValues == {"running", "completed"}

NoProgress == [present |-> FALSE, status |-> "idle", current_offset |-> 0,
               last_scan_start |-> NULL]

ScanInit ==
    /\ f_now = 0
    /\ scan_progress = NoProgress
    /\ fpc = "idle"
    /\ f_offset = 0
    /\ f_requested = <<>>
    /\ f_error = "none"
    /\ f_calls = 0

\* update_scan_progress('full', current_offset, status): INSERT OR REPLACE of
\* the row; last_scan_start becomes now when status is 'running'.  A refused
\* write is logged and False is returned, which no caller reads.
UpdateScanProgress(row, offset, status, written) ==
    IF written
    THEN [present |-> TRUE, status |-> status, current_offset |-> offset,
          last_scan_start |-> IF status = "running" THEN f_now
                              ELSE row.last_scan_start]
    ELSE row

\* lines 168-175: the offset at which the invocation starts, from the row
\* get_scan_progress returned (None without row, or when the read failed)
StartOffset(row, readable) ==
    IF readable /\ row.present /\ row.status = "running"
    THEN row.current_offset ELSE 0

\* _scan_torrents_full, lines 164-185: the cursor is read; without a running
\* cursor the invocation starts at 0 and writes (running, 0)
scan_torrents_full ==
    /\ fpc = "idle"
    /\ f_calls < MaxScans
    /\ f_calls' = f_calls + 1
    /\ \E readable \in BOOLEAN, written \in BOOLEAN :
          /\ f_offset' = StartOffset(scan_progress, readable)
          /\ scan_progress' =
                IF readable /\ scan_progress.present
                      /\ scan_progress.status = "running"
                THEN scan_progress
                ELSE UpdateScanProgress(scan_progress, 0, "running", written)
    /\ fpc' = "fetch"
    /\ f_error' = "none"
    /\ UNCHANGED <<f_now, f_requested>>
    /\ UNCHANGED outsideScan

\* the keyword arguments RealDebridClient.get_torrents accepts
GetTorrentsParameters == {"status_filter", "limit"}

\* lines 187-191: get_torrents(limit = chunk_size, offset = current_offset).
\* A keyword the function does not have raises TypeError at the call; the
\* exception leaves _scan_torrents_full and scan_torrents.
scan_torrents_full_get_torrents ==
    /\ fpc = "fetch"
    /\ IF {"limit", "offset"} \subseteq GetTorrentsParameters
       THEN /\ f_requested' = Append(f_requested, f_offset)
            /\ f_error' = "none"
       ELSE /\ f_requested' = f_requested
            /\ f_error' = "TypeError"
    /\ fpc' = "idle"
    /\ UNCHANGED <<f_now, scan_progress, f_offset, f_calls>>
    /\ UNCHANGED outsideScan

\* the process is killed between the read of the cursor and the call
scan_interrupted ==
    /\ fpc = "fetch"
    /\ fpc' = "idle"
    /\ f_error' = "killed"
    /\ UNCHANGED <<f_now, scan_progress, f_offset, f_requested, f_calls>>
    /\ UNCHANGED outsideScan

ScanTimePasses ==
    /\ fpc = "idle"
    /\ f_now < MaxScanTime
    /\ f_now' = f_now + 1
    /\ UNCHANGED <<scan_progress, fpc, f_offset, f_requested, f_error,
                   f_calls>>
    /\ UNCHANGED outsideScan

ScanNext ==
    \/ scan_torrents_full
    \/ scan_torrents_full_get_torrents
    \/ scan_interrupted
    \/ ScanTimePasses

\* C17: across any sequence of interrupted and restarted full-scan
\* invocations, each invocation that is not interrupted starts fetching at
\* the persisted offset: it requests from the provider the page at the
\* current_offset of the cursor (0 for a new scan), so that the offsets
\* requested are 0, 1000, 2000, ... until the scan is completed.
C17_FetchesAtPersistedOffset ==
    [][(fpc = "fetch" /\ fpc' = "idle" /\ f_error' # "killed")
          => /\ Len(f_requested') = Len(f_requested) + 1
             /\ f_requested'[Len(f_requested')] = f_offset
             /\ f_offset = StartOffset(scan_progress, TRUE)]_scanVars

(***************************************************************************)
(* PART 8 - the walker of the media tree (enhanced_symlink_manager.py).    *)
(*                                                                         *)
(* EnhancedSymlinkManager walks the immediate subdirectories of the media  *)
(* tree in sorted order, keeps its position in self.state and writes it to *)
(* symlink_processing_state.json.  Time is counted in ticks of 12 hours:   *)
(* the rescan interval of 24 hours is 2 ticks.                             *)
(***************************************************************************)

\* the clock stops here
MaxWalkTime == 3

\* the batch sizes requested
MaxBatch == 2

\* rescan_interval_hours = 24, in ticks
RESCAN_INTERVAL == 2

\* get_ordered_directories: the subdirectories, sorted
Directories == <<"A", "B", "C">>

\* the broken links scan_directory finds in a directory, sorted by name
BrokenLinks ==
    [d \in {"A", "B", "C"} |->
        CASE d = "A" -> <<"a1", "a2">>
          [] d = "B" -> <<>>
          [] d = "C" -> <<"c1">>]

\* SymlinkProcessingState(): the defaults of the dataclass
DefaultState == [current_directory |-> "", current_index |-> 0,
                 last_scan_date |-> NULL, scan_in_progress |-> FALSE]

WalkerInit ==
    /\ w_now = 0
    /\ w_file = DefaultState
    /\ wpc = "down"
    /\ w_state = DefaultState
    /\ w_queue = <<>>
    /\ w_batch = <<>>
    /\ w_i = 1
    /\ w_results = <<>>
    /\ w_size = 1
    /\ w_finished = {}
    /\ w_resumed = FALSE
    /\ w_handed = <<>>
    /\ w_delivered = <<>>

\* __init__ and _load_state: the state is read from the file (the defaults
\* when there is none); the queues start empty
load_state ==
    /\ wpc = "down"
    /\ wpc' = "idle"
    /\ w_state' = w_file
    /\ UNCHANGED <<w_now, w_file, w_queue, w_batch, w_i, w_results, w_size,
                   w_finished, w_resumed, w_handed, w_delivered>>
    /\ UNCHANGED outsideWalker

\* should_rescan, lines 133-149
should_rescan(st) ==
    \/ st.last_scan_date = NULL
    \/ w_now - st.last_scan_date > RESCAN_INTERVAL
    \/ st.scan_in_progress
    \/ st.current_index = 0

RECURSIVE IndexOf(_, _, _)
\* directories.index(d), from position i on; 0 when d is not in the list
IndexOf(seq, d, i) ==
    IF i > Len(seq) THEN 0
    ELSE IF seq[i] = d THEN i ELSE IndexOf(seq, d, i + 1)

\* lines 166-174: the position at which the walk starts
StartIndex(st) ==
    IF st.current_directory # "" /\ IndexOf(Directories, st.current_directory, 1) # 0
    THEN IndexOf(Directories, st.current_directory, 1)
    ELSE 1

RECURSIVE LinksOf(_)
\* _reload_symlink_queue, lines 243-248: the links of the queue's directories
LinksOf(queue) ==
    IF queue = <<>> THEN <<>>
    ELSE BrokenLinks[Head(queue)] \o LinksOf(Tail(queue))

\* current_batch[batch_size:]
DropFirst(seq, n) == SubSeq(seq, Min(n, Len(seq)) + 1, Len(seq))

\* current_batch[:batch_size]
TakeFirst(seq, n) == SubSeq(seq, 1, Min(n, Len(seq)))

\* get_next_symlink_batch, lines 226-227: the first batch_size links of the
\* batch are returned and the rest is kept
hand_out(batch, batch_size) ==
    /\ w_handed' = TakeFirst(batch, batch_size)
    /\ w_delivered' = w_delivered \o TakeFirst(batch, batch_size)
    /\ w_batch' = DropFirst(batch, batch_size)

\* the loaded state is that of a walk that was interrupted less than the
\* rescan interval ago
ResumesInWindow(st) ==
    /\ st.scan_in_progress
    /\ st.last_scan_date # NULL
    /\ w_now - st.last_scan_date <= RESCAN_INTERVAL

\* perform_full_scan, lines 155-174: scan_in_progress and last_scan_date are
\* set and saved, the directories are listed and the start position is taken
\* from current_directory
perform_full_scan(batch_size) ==
    /\ w_state' = [w_state EXCEPT !.scan_in_progress = TRUE,
                                  !.last_scan_date = w_now]
    /\ w_file' = w_state'
    /\ w_i' = StartIndex(w_state)
    /\ w_results' = <<>>
    /\ w_size' = batch_size
    /\ w_resumed' = ResumesInWindow(w_state)
    /\ w_finished' = IF ResumesInWindow(w_state) THEN w_finished ELSE {}
    /\ w_delivered' = IF ResumesInWindow(w_state) THEN w_delivered ELSE <<>>
    /\ wpc' = "scanning"
    /\ UNCHANGED <<w_now, w_queue, w_batch, w_handed>>

\* get_next_symlink_batch(batch_size): with an empty current_batch the queue
\* is reloaded (_reload_symlink_queue), by a walk when should_rescan says so
\* or the queue is empty; then the first batch_size links are handed out
get_next_symlink_batch(batch_size) ==
    /\ wpc = "idle"
    /\ IF w_batch = <<>>
       THEN IF should_rescan(w_state) \/ w_queue = <<>>
            THEN perform_full_scan(batch_size)
            ELSE /\ hand_out(LinksOf(w_queue), batch_size)
                 /\ UNCHANGED <<w_now, w_file, wpc, w_state, w_queue, w_i,
                                w_results, w_size, w_finished, w_resumed>>
       ELSE /\ hand_out(w_batch, batch_size)
            /\ UNCHANGED <<w_now, w_file, wpc, w_state, w_queue, w_i,
                           w_results, w_size, w_finished, w_resumed>>
    /\ UNCHANGED outsideWalker

\* lines 177-180: the walk reaches a directory; its name and index are put
\* into the state and saved before the directory is scanned
perform_full_scan_iteration ==
    /\ wpc = "scanning"
    /\ w_i <= Len(Directories)
    /\ w_state' = [w_state EXCEPT !.current_directory = Directories[w_i],
                                  !.current_index = w_i - 1]
    /\ w_file' = w_state'
    /\ wpc' = "inspecting"
    /\ UNCHANGED <<w_now, w_queue, w_batch, w_i, w_results, w_size,
                   w_finished, w_resumed, w_handed, w_delivered>>
    /\ UNCHANGED outsideWalker

\* lines 182-192: scan_directory_for_symlinks inspects the directory; a
\* directory with broken links is appended to results
scan_directory_for_symlinks ==
    /\ wpc = "inspecting"
    /\ w_results' = IF BrokenLinks[Directories[w_i]] # <<>>
                    THEN Append(w_results, Directories[w_i]) ELSE w_results
    /\ w_finished' = w_finished \cup {Directories[w_i]}
    /\ w_i' = w_i + 1
    /\ wpc' = "scanning"
    /\ UNCHANGED <<w_now, w_file, w_state, w_queue, w_batch, w_size,
                   w_resumed, w_handed, w_delivered>>
    /\ UNCHANGED outsideWalker

\* lines 194-203: the walk is over; scan_in_progress, current_index and
\* current_directory are reset and saved, the results become the queue, the
\* batch is rebuilt and its first batch_size links are handed out
perform_full_scan_returns ==
    /\ wpc = "scanning"
    /\ w_i > Len(Directories)
    /\ w_state' = [w_state EXCEPT !.scan_in_progress = FALSE,
                                  !.current_index = 0,
                                  !.current_directory = ""]
    /\ w_file' = w_state'
    /\ w_queue' = w_results
    /\ hand_out(LinksOf(w_results), w_size)
    /\ w_results' = <<>>
    /\ w_finished' = {}
    /\ w_resumed' = FALSE
    /\ wpc' = "idle"
    /\ UNCHANGED <<w_now, w_i, w_size>>
    /\ UNCHANGED outsideWalker

\* the process is interrupted (killed, or its task cancelled): what it had
\* in memory is lost, the file stays
walker_interrupted ==
    /\ wpc # "down"
    /\ wpc' = "down"
    /\ w_state' = DefaultState
    /\ w_queue' = <<>>
    /\ w_batch' = <<>>
    /\ w_results' = <<>>
    /\ UNCHANGED <<w_now, w_file, w_i, w_size, w_finished, w_resumed,
                   w_handed, w_delivered>>
    /\ UNCHANGED outsideWalker

WalkerTimePasses ==
    /\ w_now < MaxWalkTime
    /\ w_now' = w_now + 1
    /\ UNCHANGED <<w_file, wpc, w_state, w_queue, w_batch, w_i, w_results,
                   w_size, w_finished, w_resumed, w_handed, w_delivered>>
    /\ UNCHANGED outsideWalker

WalkerNext ==
    \/ load_state
    \/ \E batch_size \in 1..MaxBatch : get_next_symlink_batch(batch_size)
    \/ perform_full_scan_iteration
    \/ scan_directory_for_symlinks
    \/ perform_full_scan_returns
    \/ walker_interrupted
    \/ WalkerTimePasses

\* the step that starts a walk
WalkStarts == wpc = "idle" /\ wpc' = "scanning"

\* C18: if the walker is interrupted after it has finished directories up to
\* C, the persisted state names C as the directory just finished with
\* scan_in_progress = true, and on restart within the refresh window the
\* walk resumes at the directory after C: no directory finished before the
\* interruption is inspected again.
C18_ResumeAfterFinishedDirectory ==
    [][/\ (wpc = "scanning" /\ wpc' = "down" /\ w_finished # {}
              /\ ~w_resumed)
            => /\ w_file.scan_in_progress
               /\ w_file.current_directory = Directories[w_i - 1]
       /\ (wpc = "inspecting" /\ wpc' = "scanning" /\ w_resumed)
            => Directories[w_i] \notin w_finished]_walkerVars

\* C19: on restart, if the persisted last_scan_date is older than the refresh
\* window, the walker performs a full re-walk that starts at the first
\* directory, rather than resuming from the persisted directory position.
C19_StaleStateRestartsAtFirstDirectory ==
    [][(WalkStarts /\ w_state.last_scan_date # NULL
          /\ w_now - w_state.last_scan_date > RESCAN_INTERVAL)
          => w_i' = 1]_walkerVars

\* a walk has completed and has not been followed by another
WalkCompleted ==
    w_state.last_scan_date # NULL /\ ~w_state.scan_in_progress

\* C20: once a walk has completed and all of its batches have been
\* delivered, the walker starts no new walk until the refresh interval has
\* elapsed since that walk: a request for the next batch made before then
\* triggers no directory scan.
C20_NoWalkBeforeRefreshInterval ==
    [][(WalkStarts /\ WalkCompleted)
          => w_now - w_state.last_scan_date > RESCAN_INTERVAL]_walkerVars

\* every broken link of the tree, in directory order and then filename order
AllLinks == LinksOf(Directories)

\* the links returned so far are the first links of the tree, in order
DeliveredInOrder ==
    /\ Len(w_delivered) <= Len(AllLinks)
    /\ w_delivered = SubSeq(AllLinks, 1, Len(w_delivered))

\* the running process has completed a walk and returned all of its batches
AllBatchesDelivered ==
    wpc = "idle" /\ WalkCompleted /\ w_queue # <<>> /\ w_batch = <<>>

\* C37: every broken symlink discovered during a walk is delivered to the
\* tester in exactly one batch of at most batch_size items, in directory
\* order and then filename order: none is lost and none is delivered twice,
\* including when the walk was interrupted and later resumed.
C37_EveryLinkDeliveredOnce ==
    /\ [](DeliveredInOrder)
    /\ [](AllBatchesDelivered => w_delivered = AllLinks)
    /\ [][/\ \A batch_size \in 1..MaxBatch :
                ((wpc = "idle" /\ wpc' = "idle"
                    /\ get_next_symlink_batch(batch_size))
                     => Len(w_handed') <= batch_size)
           /\ (perform_full_scan_returns
                => Len(w_handed') <= w_size)]_walkerVars

(***************************************************************************)
(* PART 9 - the Scheduler (main_dual_thread.py, utils.py SignalHandler)    *)
(* and the queue processor (backend/services/torrent_queue.py).            *)
(*                                                                         *)
(* DualThreadRDManager starts three asyncio tasks and waits for them with  *)
(* gather(return_exceptions=True).  The loops of the testing and cleanup   *)
(* tasks are in continuous_test_processor, which is not in the source      *)
(* tree: they are modelled from the specification (a guarded loop that     *)
(* logs and continues); when such a loop ends after a shutdown request is  *)
(* not specified and is left open.  The handlers of SIGINT, SIGTERM and    *)
(* SIGHUP are replaced at import (utils.py:192-196), so a signal raises no *)
(* KeyboardInterrupt.                                                      *)
(***************************************************************************)

\* exceptions raised inside the iterations of one task
MaxRaised == 2

\* self.tasks
ManagerTasks == {"testing", "cleanup", "monitoring"}

\* the long-running loops
Loops == ManagerTasks \cup {"queue"}

\* task.done()
Done == {"returned", "raised", "cancelled"}

SchedulerInit ==
    /\ shutdown_requested = FALSE
    /\ is_running = FALSE
    /\ task = [t \in Loops |-> "not_started"]
    /\ raised = [t \in Loops |-> 0]
    /\ logged = [t \in Loops |-> 0]
    /\ db_closed = FALSE
    /\ main_pc = "init"

\* lines 183-200: is_running is set and the three tasks are created
run_dual_thread_processing ==
    /\ main_pc = "init"
    /\ is_running' = TRUE
    /\ task' = [t \in Loops |->
                   IF t \in ManagerTasks THEN "created" ELSE task[t]]
    /\ main_pc' = "gather"
    /\ UNCHANGED <<shutdown_requested, raised, logged, db_closed>>
    /\ UNCHANGED outsideSched

\* _run_testing_thread, _run_cleanup_thread (lines 213-231): the call of
\* run_continuous_testing / run_continuous_cleanup either enters its loop
\* or raises before it; the exception is logged and raised again, which
\* ends the task
run_thread(t) ==
    /\ t \in {"testing", "cleanup"}
    /\ task[t] = "created"
    /\ \E fails \in BOOLEAN :
          IF fails
          THEN /\ task' = [task EXCEPT ![t] = "raised"]
               /\ logged' = [logged EXCEPT ![t] = Min(@ + 1, MaxRaised + 1)]
          ELSE /\ task' = [task EXCEPT ![t] = "running"]
               /\ UNCHANGED logged
    /\ UNCHANGED <<shutdown_requested, is_running, raised, db_closed, main_pc>>
    /\ UNCHANGED outsideSched

\* what the loop of a task does with an exception of one iteration: the
\* state of the task afterwards and whether it logs the exception

\* the guarded loop of the specification: log and continue
continuous_loop_except == [status |-> "running", logs |-> TRUE]

\* _display_runtime_stats, _record_metrics (lines 278-279, 299-300) catch
\* and log whatever their bodies raise; the loop of lines 238-245 goes on
monitoring_except == [status |-> "running", logs |-> TRUE]

queue_processor_except_Escapes == [status |-> "raised", logs |-> FALSE]

\* torrent_queue.py lines 66-68: except Exception: log, sleep 5 s, loop
queue_processor_except == [status |-> "running", logs |-> TRUE]

LoopExcept(t) ==
    CASE t = "queue" -> queue_processor_except
      [] t = "monitoring" -> monitoring_except
      [] OTHER -> continuous_loop_except

\* an iteration of the loop of task t raises an exception
IterationRaises(t) ==
    /\ raised[t] < MaxRaised
    /\ raised' = [raised EXCEPT ![t] = @ + 1]
    /\ task' = [task EXCEPT ![t] = LoopExcept(t).status]
    /\ logged' = [logged EXCEPT ![t] =
                     IF LoopExcept(t).logs THEN Min(@ + 1, MaxRaised + 1)
                     ELSE @]

\* one iteration of run_continuous_testing / run_continuous_cleanup
continuous_iteration(t) ==
    /\ t \in {"testing", "cleanup"}
    /\ task[t] = "running"
    /\ IterationRaises(t)
    /\ UNCHANGED <<shutdown_requested, is_running, db_closed, main_pc>>
    /\ UNCHANGED outsideSched

\* the loop of run_continuous_testing / run_continuous_cleanup ends once a
\* shutdown was requested; whether and when it does is not specified
continuous_loop_returns(t) ==
    /\ t \in {"testing", "cleanup"}
    /\ task[t] = "running"
    /\ shutdown_requested \/ ~is_running
    /\ task' = [task EXCEPT ![t] = "returned"]
    /\ UNCHANGED <<shutdown_requested, is_running, raised, logged,
                   db_closed, main_pc>>
    /\ UNCHANGED outsideSched

\* _run_monitoring_thread (lines 233-248): the test of the while loop; the
\* task returns when it fails, otherwise sleeps 300 s and runs the body
run_monitoring_thread ==
    /\ task["monitoring"] \in {"created", "running"}
    /\ IF is_running /\ ~shutdown_requested
       THEN \/ /\ task["monitoring"] = "created"
               /\ task' = [task EXCEPT !["monitoring"] = "running"]
               /\ UNCHANGED <<raised, logged>>
            \/ /\ task["monitoring"] = "running"
               /\ IterationRaises("monitoring")
       ELSE /\ task' = [task EXCEPT !["monitoring"] = "returned"]
            /\ UNCHANGED <<raised, logged>>
    /\ UNCHANGED <<shutdown_requested, is_running, db_closed, main_pc>>
    /\ UNCHANGED outsideSched

\* TorrentQueue.start_queue_processor (lines 57-62): is_running = True and
\* the loop starts
start_queue_processor ==
    /\ task["queue"] = "not_started"
    /\ task' = [task EXCEPT !["queue"] = "running"]
    /\ UNCHANGED <<shutdown_requested, is_running, raised, logged,
                   db_closed, main_pc>>
    /\ UNCHANGED outsideSched

\* lines 62-68: an iteration in which _process_queue raises
process_queue_raises ==
    /\ task["queue"] = "running"
    /\ IterationRaises("queue")
    /\ UNCHANGED <<shutdown_requested, is_running, db_closed, main_pc>>
    /\ UNCHANGED outsideSched

\* _cancel_all_tasks (lines 302-314): every task that is not done is
\* cancelled and awaited
cancel_all_tasks(ts) ==
    [t \in Loops |->
        IF t \in ManagerTasks /\ ts[t] \notin Done THEN "cancelled"
        ELSE ts[t]]

\* shutdown is declared with async def (line 355)
shutdown_is_coroutine_function == TRUE

\* utils.py line 216: callback().  Calling a coroutine function builds a
\* coroutine object and runs none of its body; only a plain function runs
CallRunsBody(is_coroutine_function) == ~is_coroutine_function

\* SignalHandler._handle_signal (utils.py lines 198-218) for the one signal
\* of a run: the flag is set and the callback registered by
\* DualThreadRDManager.__init__ (line 42) is called.  The body of shutdown
\* (lines 355-385) sets is_running, cancels the tasks and closes the
\* database
handle_signal ==
    /\ ~shutdown_requested
    /\ main_pc = "gather"
    /\ shutdown_requested' = TRUE
    /\ IF CallRunsBody(shutdown_is_coroutine_function)
       THEN /\ is_running' = FALSE
            /\ task' = cancel_all_tasks(task)
            /\ db_closed' = TRUE
       ELSE UNCHANGED <<is_running, task, db_closed>>
    /\ UNCHANGED <<raised, logged, main_pc>>
    /\ UNCHANGED outsideSched

\* lines 203-211: gather returns when the three tasks are done; the
\* finally clause clears is_running and cancels what is left; main()
\* returns and the process ends
gather_returns ==
    /\ main_pc = "gather"
    /\ \A t \in ManagerTasks : task[t] \in Done
    /\ is_running' = FALSE
    /\ task' = cancel_all_tasks(task)
    /\ main_pc' = "exited"
    /\ UNCHANGED <<shutdown_requested, raised, logged, db_closed>>
    /\ UNCHANGED outsideSched

SchedulerNext ==
    \/ run_dual_thread_processing
    \/ \E t \in {"testing", "cleanup"} : run_thread(t)
    \/ \E t \in {"testing", "cleanup"} : continuous_iteration(t)
    \/ \E t \in {"testing", "cleanup"} : continuous_loop_returns(t)
    \/ run_monitoring_thread
    \/ start_queue_processor
    \/ process_queue_raises
    \/ handle_signal
    \/ gather_returns

\* the state the specification calls stopped: every task of the manager
\* has terminated and the Store is closed
Stopped ==
    /\ \A t \in ManagerTasks : task[t] \in Done
    /\ db_closed

\* C21: after a shutdown signal the Scheduler eventually reaches a stopped
\* state: every long-running task has terminated and the Store has been
\* closed (the flush of SymlinkProcessingState is part of no path of
\* shutdown and is left out of the formula).
C21_ShutdownReachesStopped == shutdown_requested ~> Stopped

MaxEventOps == 3

\* the operations that announce themselves with a *_start event
Operations == {"scan", "reinject", "symlink_scan"}

\* the events that end an operation
TerminatingEvents == {"complete", "error"}

EventsInit ==
    /\ e_pc = [op \in Operations |-> "idle"]
    /\ e_events = [op \in Operations |-> <<>>]
    /\ e_outcome = [op \in Operations |-> "none"]
    /\ e_started = 0

\* torrent_service.py lines 40, 213-217; symlink_service.py line 21: the
\* operation broadcasts its *_start event and enters its try block
operation_starts(op) ==
    /\ e_pc[op] = "idle"
    /\ e_started < MaxEventOps
    /\ e_started' = e_started + 1
    /\ e_pc' = [e_pc EXCEPT ![op] = "running"]
    /\ e_events' = [e_events EXCEPT ![op] = <<"start">>]
    /\ e_outcome' = [e_outcome EXCEPT ![op] = "none"]
    /\ UNCHANGED outsideEvents

\* torrent_service.py lines 83-87: scan_progress after a batch of 50
scan_batch_processed ==
    /\ e_pc["scan"] = "running"
    /\ Len(e_events["scan"]) < 2
    /\ e_events' = [e_events EXCEPT !["scan"] = Append(@, "progress")]
    /\ UNCHANGED <<e_pc, e_outcome, e_started>>
    /\ UNCHANGED outsideEvents

\* the end of the try block (torrent_service.py lines 105-114, 229-263;
\* symlink_service.py lines 58-70): *_complete is broadcast and the result
\* returned.  reinject_torrent gets here with any HTTP status: success is
\* response.status in [200, 201] and travels inside reinject_complete
operation_returns(op) ==
    /\ e_pc[op] = "running"
    /\ \E success \in (IF op = "reinject" THEN BOOLEAN ELSE {TRUE}) :
          e_outcome' = [e_outcome EXCEPT ![op] =
                           IF success THEN "succeeded" ELSE "failed"]
    /\ e_events' = [e_events EXCEPT ![op] = Append(@, "complete")]
    /\ e_pc' = [e_pc EXCEPT ![op] = "idle"]
    /\ UNCHANGED e_started
    /\ UNCHANGED outsideEvents

\* "except Exception" (torrent_service.py lines 116-122, 265-283;
\* symlink_service.py lines 72-77): *_error is broadcast and the exception
\* raised again.  The handler of reinject_torrent first writes an Attempt
\* row and commits (lines 267-275); when that raises, nothing is broadcast
operation_raises(op) ==
    /\ e_pc[op] = "running"
    /\ \E handler_fails \in (IF op = "reinject" THEN BOOLEAN ELSE {FALSE}) :
          e_events' = [e_events EXCEPT ![op] =
                          IF handler_fails THEN @ ELSE Append(@, "error")]
    /\ e_outcome' = [e_outcome EXCEPT ![op] = "failed"]
    /\ e_pc' = [e_pc EXCEPT ![op] = "idle"]
    /\ UNCHANGED e_started
    /\ UNCHANGED outsideEvents

\* the task is cancelled at an await of the try block (the HTTP calls, the
\* sleep of line 90): asyncio.CancelledError is a BaseException and passes
\* "except Exception"; only the finally clause runs
operation_cancelled(op) ==
    /\ op \in {"scan", "reinject"}
    /\ e_pc[op] = "running"
    /\ e_outcome' = [e_outcome EXCEPT ![op] = "interrupted"]
    /\ e_pc' = [e_pc EXCEPT ![op] = "idle"]
    /\ UNCHANGED <<e_events, e_started>>
    /\ UNCHANGED outsideEvents

EventsNext ==
    \/ \E op \in Operations : operation_starts(op)
    \/ scan_batch_processed
    \/ \E op \in Operations : operation_returns(op)
    \/ \E op \in Operations : operation_raises(op)
    \/ \E op \in Operations : operation_cancelled(op)

\* the terminating events among the events of an operation
RECURSIVE Terminating(_)
Terminating(evs) ==
    IF evs = <<>> THEN <<>>
    ELSE IF Head(evs) \in TerminatingEvents
         THEN <<Head(evs)>> \o Terminating(Tail(evs))
         ELSE Terminating(Tail(evs))

\* C23: every operation announced by a *_start event is eventually followed
\* by exactly one terminating event, and that event is the *_error event
\* whenever the operation failed or was interrupted in flight.
C23_AnnouncedOperationsTerminate ==
    /\ \A op \in Operations :
          (e_pc[op] = "running")
              ~> (e_pc[op] = "idle" /\ Len(Terminating(e_events[op])) = 1)
    /\ [][\A op \in Operations :
             (e_pc[op] = "running" /\ e_pc'[op] = "idle")
                 => /\ Len(Terminating(e_events'[op])) = 1
                    /\ e_outcome'[op] \in {"failed", "interrupted"}
                          => Terminating(e_events'[op]) = <<"error">>]_eventVars


(***************************************************************************)
(* PART 11 - the selection of the candidates among several torrents        *)
(* (torrent_manager.py, get_reinjection_candidates; database.py,           *)
(* get_failed_torrents).  The rows are those the WHERE clause keeps; a row *)
(* is its priority and its last_seen.                                      *)
(***************************************************************************)

\* the values of last_seen
MaxSeen == 1

CandidateIds == {"a", "b", "c"}

\* PRIORITY_CONFIG: 1 low, 2 normal, 3 high
CandidatePriorities == {1, 2, 3}

NoCandidate == [present |-> FALSE, priority |-> 0, last_seen |-> 0]

CandidatesInit ==
    /\ k_rows = [t \in CandidateIds |-> NoCandidate]
    /\ k_max = 1
    /\ k_selected = <<>>
    /\ k_called = FALSE

\* a scan upserts a failed torrent: the row enters the result of the query
candidate_upserted(t) ==
    /\ ~k_called
    /\ \E p \in CandidatePriorities, seen \in 0..MaxSeen :
          k_rows' = [k_rows EXCEPT ![t] = [present |-> TRUE, priority |-> p,
                                           last_seen |-> seen]]
    /\ UNCHANGED <<k_max, k_selected, k_called>>
    /\ UNCHANGED outsideCandidates

\* the rows of the query
Eligible == {t \in CandidateIds : k_rows[t].present}

\* ORDER BY priority DESC, last_seen DESC of get_failed_torrents: the
\* orders in which the rows may come back (ties are left open)
SqlOrder ==
    {f \in Perms(Eligible) :
        \A i, j \in DOMAIN f :
            i < j => \/ k_rows[f[i]].priority > k_rows[f[j]].priority
                     \/ /\ k_rows[f[i]].priority = k_rows[f[j]].priority
                        /\ k_rows[f[i]].last_seen >= k_rows[f[j]].last_seen}

\* the key of line 462, (-t.priority, t.last_seen): key(a) > key(b)
SortKeyGreater(a, b) ==
    \/ 0 - k_rows[a].priority > 0 - k_rows[b].priority
    \/ /\ k_rows[a].priority = k_rows[b].priority
       /\ k_rows[a].last_seen > k_rows[b].last_seen

SortKeyEqual(a, b) ==
    /\ k_rows[a].priority = k_rows[b].priority
    /\ k_rows[a].last_seen = k_rows[b].last_seen

\* candidates.sort(key=..., reverse=True): greater keys first; the sort is
\* stable, rows with equal keys keep the order of sq
PythonSort(sq) ==
    CHOOSE f \in Perms({sq[i] : i \in DOMAIN sq}) :
        \A i, j \in DOMAIN f : i < j =>
            \/ SortKeyGreater(f[i], f[j])
            \/ SortKeyEqual(f[i], f[j]) /\ Position(sq, f[i]) < Position(sq, f[j])

\* get_reinjection_candidates (lines 450-467): the rows of the query,
\* sorted, cut to max_torrents_per_cycle
get_reinjection_candidates ==
    /\ ~k_called
    /\ \E sq \in SqlOrder, max_candidates \in 1..MaxPerCycle :
          /\ k_selected' = SeqTake(PythonSort(sq), max_candidates)
          /\ k_max' = max_candidates
    /\ k_called' = TRUE
    /\ UNCHANGED k_rows
    /\ UNCHANGED outsideCandidates

\* the cycle is over; the table may change again
candidates_processed ==
    /\ k_called
    /\ k_called' = FALSE
    /\ k_selected' = <<>>
    /\ UNCHANGED <<k_rows, k_max>>
    /\ UNCHANGED outsideCandidates

CandidatesNext ==
    \/ \E t \in CandidateIds : candidate_upserted(t)
    \/ get_reinjection_candidates
    \/ candidates_processed

\* the torrents in the sequence sq
Selected == {k_selected[i] : i \in DOMAIN k_selected}

\* C26: select_candidates returns the eligible torrents sorted by priority
\* descending, then last_seen descending, cut to the per-cycle limit: no
\* eligible torrent that is left out has a higher priority than one that is
\* returned.
C26_CandidatesByPriority ==
    k_called =>
        /\ Selected \subseteq Eligible
        /\ Len(k_selected) = Min(k_max, Cardinality(Eligible))
        /\ \A i, j \in DOMAIN k_selected :
              i < j =>
                 \/ k_rows[k_selected[i]].priority
                       > k_rows[k_selected[j]].priority
                 \/ /\ k_rows[k_selected[i]].priority
                          = k_rows[k_selected[j]].priority
                    /\ k_rows[k_selected[i]].last_seen
                          >= k_rows[k_selected[j]].last_seen
        /\ \A out \in Eligible \ Selected, t \in Selected :
              k_rows[out].priority <= k_rows[t].priority


(***************************************************************************)
(* PART 12 - the pre-flight of a re-submission: TorrentValidator           *)
(* (torrent_validator.py) on concrete hashes and what reinject_torrent     *)
(* (torrent_manager.py, lines 484-580) records for them.  A hash is a      *)
(* sequence of characters.                                                 *)
(***************************************************************************)

\* calls of reinject_torrent in a run of the model
MaxReinjects == 2

\* MAGNET_VALIDATION['min_hash_length']
HASH_LENGTH == 40

HexDigits == {"0", "1", "2", "3", "4", "5", "6", "7", "8", "9",
              "a", "b", "c", "d", "e", "f"}

\* n times the character c
Repeat(c, n) == [i \in 1..n |-> c]

\* the characters of cs in turn, up to length n
Cycle(cs, n) == [i \in 1..n |-> cs[((i - 1) % Len(cs)) + 1]]

\* the hashes of the torrents re-submitted in this model
Hashes ==
    { Repeat("a", HASH_LENGTH),
      Repeat("0", HASH_LENGTH),
      Cycle(<<"a", "b">>, HASH_LENGTH),
      Cycle(<<"a", "b", "c">>, HASH_LENGTH),
      Cycle(<<"A", "B", "C">>, HASH_LENGTH),
      <<" ">> \o Cycle(<<"3", "e", "7">>, HASH_LENGTH),
      Cycle(<<"a", "b", "c">>, HASH_LENGTH - 1),
      Cycle(<<"a", "g", "c">>, HASH_LENGTH),
      <<>> }

\* str.lower() on the characters of this model
LowerChar(c) ==
    CASE c = "A" -> "a"
      [] c = "B" -> "b"
      [] c = "C" -> "c"
      [] OTHER -> c

Lower(s) == [i \in DOMAIN s |-> LowerChar(s[i])]

\* str.strip(): the blanks at both ends are dropped
RECURSIVE Strip(_)
Strip(s) ==
    IF s = <<>> THEN s
    ELSE IF Head(s) = " " THEN Strip(Tail(s))
    ELSE IF s[Len(s)] = " " THEN Strip(SubSeq(s, 1, Len(s) - 1))
    ELSE s

\* sha1_pattern: ^[a-fA-F0-9]{40}$
MatchesSha1Pattern(s) ==
    /\ Len(s) = HASH_LENGTH
    /\ \A i \in DOMAIN s : LowerChar(s[i]) \in HexDigits

\* len(set(hash_clean))
DistinctChars(s) == Cardinality({s[i] : i \in DOMAIN s})

\* "< 3": the fewest different characters a hash may have
MIN_DISTINCT == 3

\* validate_sha1_hash (lines 31-58): the message of the first check that
\* fails, or "ok"; the blacklist is empty
validate_sha1_hash(hash_str) ==
    LET hash_clean == Lower(Strip(hash_str))
    IN  IF hash_str = <<>> THEN "Hash vide"
        ELSE IF Len(hash_clean) # HASH_LENGTH THEN "Longueur invalide"
        ELSE IF ~MatchesSha1Pattern(hash_clean)
             THEN "Format hexadecimal invalide"
        ELSE IF hash_clean = Repeat("0", HASH_LENGTH) THEN "Hash null"
        ELSE IF DistinctChars(hash_clean) < MIN_DISTINCT THEN "Hash suspect"
        ELSE "ok"

\* record_attempt: the table with one more row (none when the write raises:
\* the exception is caught and False returned, which reinject_torrent
\* ignores)
Recorded(row, written) ==
    IF written THEN Append(p_attempts, row) ELSE p_attempts

PreflightInit ==
    /\ p_dry_run = TRUE
    /\ p_hash = <<>>
    /\ p_attempts = <<>>
    /\ p_requests = 0
    /\ p_result = "none"
    /\ p_calls = 0

\* reinject_torrent (lines 484-580) on a torrent with hash h: an invalid
\* hash returns False at line 502; in dry-run the simulated Attempt is
\* recorded and True returned (lines 516-525); otherwise add_magnet is sent
\* and the Attempt of its outcome recorded
preflight_reinject_torrent(h, dry) ==
    /\ p_calls < MaxReinjects
    /\ p_calls' = p_calls + 1
    /\ p_hash' = h
    /\ p_dry_run' = dry
    /\ \E written \in BOOLEAN, api_success \in BOOLEAN :
          IF validate_sha1_hash(h) # "ok"
          THEN /\ p_attempts' = p_attempts
               /\ p_requests' = 0
               /\ p_result' = "false"
          ELSE IF dry
          THEN /\ p_attempts' =
                    Recorded([success |-> TRUE, error_message |-> "",
                              api_response |-> "DRY-RUN simulation"],
                             written)
               /\ p_requests' = 0
               /\ p_result' = "true"
          ELSE /\ p_attempts' =
                    Recorded([success |-> api_success,
                              error_message |->
                                  IF api_success THEN "" ELSE "Echec API",
                              api_response |-> "provider"],
                             written)
               /\ p_requests' = 1
               /\ p_result' = IF api_success THEN "true" ELSE "false"
    /\ UNCHANGED outsidePreflight

PreflightNext ==
    \E h \in Hashes, dry \in BOOLEAN : preflight_reinject_torrent(h, dry)

\* a call of reinject_torrent returns
ReinjectCalled == p_calls' = p_calls + 1

\* the newest row of the table attempts
NewAttempt == p_attempts[Len(p_attempts)]

\* 40 characters, each a hexadecimal digit
WellFormedHash(h) ==
    /\ Len(h) = HASH_LENGTH
    /\ \A i \in DOMAIN h : h[i] \in HexDigits

\* C27: reinject of a torrent whose hash fails validation records exactly
\* one failed Attempt row with the reason "Hash invalide" (success false,
\* non-empty error_message), sends no provider request and stops.
C27_InvalidHashRecordsFailedAttempt ==
    [][(ReinjectCalled /\ validate_sha1_hash(p_hash') # "ok")
          => /\ Len(p_attempts') = Len(p_attempts) + 1
             /\ ~NewAttempt'.success
             /\ NewAttempt'.error_message = "Hash invalide"
             /\ p_requests' = 0
             /\ p_result' = "false"]_preflightVars

\* C28: in dry-run mode, reinject of a torrent with a well-formed 40-hex
\* hash (the scenario of the specification uses "a" 40 times) records
\* exactly one Attempt row with success = true and api_response =
\* "DRY-RUN simulation".
C28_DryRunRecordsSimulation ==
    [][(ReinjectCalled /\ p_dry_run' /\ WellFormedHash(p_hash'))
          => /\ Len(p_attempts') = Len(p_attempts) + 1
             /\ NewAttempt'.success
             /\ NewAttempt'.api_response = "DRY-RUN simulation"]_preflightVars

\* ======================================================================
\* PART 13.  Writing a torrent twice: DatabaseManager.upsert_torrent
\* (src/database.py) and TorrentService._process_torrent (backend)
\* ======================================================================
\* A table is the set of its rows.  The payload fields hash, filename,
\* added and metadata are copied to the row exactly as status and size are;
\* status and size stand for them.  Sizes are counted in MiB.

MaxUpserts == 2

MaxUpsertClock == 2

MIB_PER_GB == 1024

ABSENT == 0

UpsertIds == {"T1"}

UpsertStatuses == {"downloaded", "magnet_error"}

UpsertSizes == {0, 2000}

\* torrent_data: priority ABSENT when the key is missing
Payloads ==
    [id : UpsertIds, status : UpsertStatuses, size : UpsertSizes,
     priority : {ABSENT, SYMLINK_PRIORITY}]

NoPayload == [id |-> "none", status |-> "none", size |-> 0, priority |-> ABSENT]

Implementations == {"cli", "backend"}

UpsertInit ==
    /\ u_rows = {}
    /\ b_rows = {}
    /\ u_now = 0
    /\ u_payload = [i \in Implementations |-> NoPayload]
    /\ u_result = [i \in Implementations |-> FALSE]
    /\ u_calls = [i \in Implementations |-> 0]

WithId(rows, id) == {r \in rows : r.id = id}

\* UPDATE torrents SET <base_fields> WHERE id = ?
UpdateRow(r, torrent_data) ==
    [r EXCEPT !.status = torrent_data.status,
              !.size = torrent_data.size,
              !.last_seen = u_now]

\* INSERT INTO torrents: id, first_seen, attempts_count, priority and the
\* base fields
InsertRow(torrent_data) ==
    [id |-> torrent_data.id,
     first_seen |-> u_now,
     attempts_count |-> 0,
     priority |-> IF torrent_data.priority = ABSENT THEN DEFAULT_PRIORITY
                  ELSE torrent_data.priority,
     status |-> torrent_data.status,
     size |-> torrent_data.size,
     last_seen |-> u_now]

\* DatabaseManager.upsert_torrent; committed is FALSE when a statement
\* raises: get_cursor rolls back and the function returns False
upsert_torrent(torrent_data, committed) ==
    /\ u_calls["cli"] < MaxUpserts
    /\ u_calls' = [u_calls EXCEPT !["cli"] = @ + 1]
    /\ u_payload' = [u_payload EXCEPT !["cli"] = torrent_data]
    /\ u_result' = [u_result EXCEPT !["cli"] = committed]
    /\ LET existing == WithId(u_rows, torrent_data.id)
       IN  u_rows' =
             IF ~committed THEN u_rows
             ELSE IF existing # {}
                  THEN (u_rows \ existing)
                       \cup {UpdateRow(r, torrent_data) : r \in existing}
                  ELSE u_rows \cup {InsertRow(torrent_data)}
    /\ UNCHANGED <<b_rows, u_now>>
    /\ UNCHANGED outsideUpsert

\* TorrentService._calculate_priority
calculate_priority(torrent_data) ==
    IF torrent_data.status = "magnet_error" \/ torrent_data.size > MIB_PER_GB
    THEN 3
    ELSE IF torrent_data.size * 10 < MIB_PER_GB THEN 1
    ELSE 2

\* Torrent(...) of the backend: first_seen and last_seen take the column
\* default datetime.utcnow, attempts_count the default 0
BackendInsertRow(torrent_data) ==
    [id |-> torrent_data.id,
     first_seen |-> u_now,
     attempts_count |-> 0,
     priority |-> calculate_priority(torrent_data),
     status |-> torrent_data.status,
     size |-> torrent_data.size,
     last_seen |-> u_now]

\* TorrentService._process_torrent; committed is FALSE when the commit
\* raises: the session is rolled back
process_torrent(torrent_data, committed) ==
    /\ u_calls["backend"] < MaxUpserts
    /\ u_calls' = [u_calls EXCEPT !["backend"] = @ + 1]
    /\ u_payload' = [u_payload EXCEPT !["backend"] = torrent_data]
    /\ u_result' = [u_result EXCEPT !["backend"] = committed]
    /\ LET existing == WithId(b_rows, torrent_data.id)
       IN  b_rows' =
             IF ~committed THEN b_rows
             ELSE IF existing # {}
                  THEN (b_rows \ existing)
                       \cup {UpdateRow(r, torrent_data) : r \in existing}
                  ELSE b_rows \cup {BackendInsertRow(torrent_data)}
    /\ UNCHANGED <<u_rows, u_now>>
    /\ UNCHANGED outsideUpsert

\* time passes between two scans
upsert_clock_advances ==
    /\ u_now < MaxUpsertClock
    /\ u_now' = u_now + 1
    /\ UNCHANGED <<u_rows, b_rows, u_payload, u_result, u_calls>>
    /\ UNCHANGED outsideUpsert

UpsertNext ==
    \/ \E torrent_data \in Payloads, committed \in BOOLEAN :
           upsert_torrent(torrent_data, committed)
    \/ \E torrent_data \in Payloads, committed \in BOOLEAN :
           process_torrent(torrent_data, committed)
    \/ upsert_clock_advances

\* implementation i has just committed, for the second time running, a
\* write of the same payload
SamePayloadTwice(i) ==
    /\ u_calls'[i] = u_calls[i] + 1
    /\ u_payload'[i] = u_payload[i]
    /\ u_result[i]
    /\ u_result'[i]

\* C30: upserting the same Torrent payload twice yields exactly one row,
\* and the fields of that row after the second write are identical to its
\* fields after the first write; first_seen in particular is not updated.
C30_SecondUpsertChangesNothing ==
    [][/\ SamePayloadTwice("cli")
            => /\ Cardinality(WithId(u_rows', u_payload'["cli"].id)) = 1
               /\ u_rows' = u_rows
       /\ SamePayloadTwice("backend")
            => /\ Cardinality(WithId(b_rows', u_payload'["backend"].id)) = 1
               /\ b_rows' = b_rows]_upsertVars

(***************************************************************************)
(* PART 14 - the verdict cache and the blacklist of TorrentValidator       *)
(* (torrent_validator.py).  A magnet link is the part before the hash and  *)
(* the characters that follow it; the cache key, the md5 of the link, is   *)
(* the link itself (no two links of this model collide).                   *)
(***************************************************************************)

\* calls of the validator in a run of the model
MaxValidatorCalls == 4

\* TorrentValidator.cache_max_size
cache_max_size == 1000

\* "[:100]": the entries dropped from a full cache
CACHE_EVICTED == 100

MAGNET_PREFIX == "magnet:?xt=urn:btih:"

\* the hashes carried by the magnets of this model
MagnetHashes ==
    { Cycle(<<"a", "b", "c">>, HASH_LENGTH),
      Cycle(<<"A", "B", "C">>, HASH_LENGTH),
      Cycle(<<"a", "b", "c">>, HASH_LENGTH - 1) }

EmptyMagnet == [prefix |-> "", rest |-> <<>>]

Magnets ==
    [prefix : {MAGNET_PREFIX, "http://tracker/"}, rest : MagnetHashes]
        \cup {EmptyMagnet}

NoResult == [valid |-> FALSE, hash |-> <<"-">>, message |-> "none"]

\* Python's None as an extracted hash
NoHash == <<>>

Result(valid, hash, message) ==
    [valid |-> valid, hash |-> hash, message |-> message]

ValidatorInit ==
    /\ v_cache = <<>>
    /\ v_blacklist = {}
    /\ v_first = [m \in Magnets |-> NoResult]
    /\ v_op = "none"
    /\ v_arg = EmptyMagnet
    /\ v_result = NoResult
    /\ v_calls = 0

\* validate_sha1_hash with the blacklist of the instance (lines 31-58): the
\* blacklist is looked up after the format checks and before the others
validate_sha1_hash_of(hash_str, hash_blacklist) ==
    LET message == validate_sha1_hash(hash_str)
    IN  IF message \in {"Hash vide", "Longueur invalide",
                        "Format hexadecimal invalide"}
        THEN message
        ELSE IF Lower(Strip(hash_str)) \in hash_blacklist
             THEN "Hash dans la blacklist"
        ELSE message

\* magnet_pattern.search: ^magnet:\?xt=urn:btih:([a-fA-F0-9]{40})
MagnetMatches(magnet_link) ==
    /\ magnet_link.prefix = MAGNET_PREFIX
    /\ Len(magnet_link.rest) >= HASH_LENGTH
    /\ MatchesSha1Pattern(SubSeq(magnet_link.rest, 1, HASH_LENGTH))

\* match.group(1): the characters as they are written in the link
MatchGroup(magnet_link) == SubSeq(magnet_link.rest, 1, HASH_LENGTH)

\* magnet_link.startswith('magnet:')
HasRequiredScheme(magnet_link) == magnet_link.prefix = MAGNET_PREFIX

\* validate_magnet_structure (lines 105-144): the scheme is magnet and an
\* xt parameter starts with urn:btih:
validate_magnet_structure(magnet_link) ==
    magnet_link.prefix = MAGNET_PREFIX

CacheKeys(cache) == {cache[i].key : i \in DOMAIN cache}

CacheEntry(cache, key) ==
    cache[CHOOSE i \in DOMAIN cache : cache[i].key = key]

\* _cache_result (lines 229-238): a full cache loses its 100 oldest
\* entries; then the entry is set, in place when the key is there
cache_result(cache, key, success, message) ==
    LET kept == IF Len(cache) >= cache_max_size
                THEN DropFirst(cache, CACHE_EVICTED)
                ELSE cache
        entry == [key |-> key, success |-> success, message |-> message]
    IN  IF key \in CacheKeys(kept)
        THEN [i \in DOMAIN kept |->
                 IF kept[i].key = key THEN entry ELSE kept[i]]
        ELSE Append(kept, entry)

\* a cached verdict is answered without a new validation (lines 67-73)
CachedAnswer(magnet_link) ==
    LET cached_result == CacheEntry(v_cache, magnet_link)
    IN  IF cached_result.success
        THEN Result(TRUE,
                    IF MagnetMatches(magnet_link)
                    THEN MatchGroup(magnet_link) ELSE NoHash,
                    cached_result.message)
        ELSE Result(FALSE, NoHash, cached_result.message)

\* the validation of a link that is not in the cache (lines 75-103)
UncachedAnswer(magnet_link) ==
    IF ~HasRequiredScheme(magnet_link)
    THEN Result(FALSE, NoHash, "Schema invalide")
    ELSE IF ~MagnetMatches(magnet_link)
    THEN Result(FALSE, NoHash, "Format magnet invalide ou hash manquant")
    ELSE LET extracted_hash == MatchGroup(magnet_link)
             hash_error == validate_sha1_hash_of(extracted_hash, v_blacklist)
         IN  IF hash_error # "ok"
             THEN Result(FALSE, NoHash, hash_error)
             ELSE IF ~validate_magnet_structure(magnet_link)
             THEN Result(FALSE, NoHash, "Schema non-magnet")
             ELSE Result(TRUE, Lower(extracted_hash), "Magnet link valide")

\* extract_hash_from_magnet (lines 60-103)
extract_hash_from_magnet(magnet_link) ==
    /\ v_calls < MaxValidatorCalls
    /\ v_calls' = v_calls + 1
    /\ v_op' = "parse"
    /\ v_arg' = magnet_link
    /\ IF magnet_link = EmptyMagnet
       THEN /\ v_result' = Result(FALSE, NoHash, "Magnet link vide")
            /\ v_first' = IF v_first[magnet_link] = NoResult
                          THEN [v_first EXCEPT ![magnet_link] = v_result']
                          ELSE v_first
            /\ UNCHANGED v_cache
       ELSE IF magnet_link \in CacheKeys(v_cache)
       THEN /\ v_result' = CachedAnswer(magnet_link)
            /\ UNCHANGED <<v_cache, v_first>>
       ELSE /\ v_result' = UncachedAnswer(magnet_link)
            /\ v_cache' = cache_result(v_cache, magnet_link, v_result'.valid,
                                       v_result'.message)
            /\ v_first' = [v_first EXCEPT ![magnet_link] = v_result']
    /\ UNCHANGED v_blacklist
    /\ UNCHANGED outsideValidator

\* a direct call of validate_sha1_hash
validator_validate_sha1_hash(hash_str) ==
    /\ v_calls < MaxValidatorCalls
    /\ v_calls' = v_calls + 1
    /\ v_op' = "validate"
    /\ v_arg' = [prefix |-> "", rest |-> hash_str]
    /\ LET message == validate_sha1_hash_of(hash_str, v_blacklist)
       IN  v_result' = Result(message = "ok", NoHash, message)
    /\ UNCHANGED <<v_cache, v_blacklist, v_first>>
    /\ UNCHANGED outsideValidator

\* add_to_blacklist (lines 210-215)
add_to_blacklist(hash_str) ==
    /\ v_calls < MaxValidatorCalls
    /\ v_calls' = v_calls + 1
    /\ v_op' = "blacklist"
    /\ v_arg' = [prefix |-> "", rest |-> hash_str]
    /\ LET hash_clean == Lower(Strip(hash_str))
       IN  v_blacklist' =
             IF validate_sha1_hash_of(hash_clean, v_blacklist) = "ok"
             THEN v_blacklist \cup {hash_clean}
             ELSE v_blacklist
    /\ UNCHANGED <<v_cache, v_first, v_result>>
    /\ UNCHANGED outsideValidator

ValidatorNext ==
    \/ \E magnet_link \in Magnets : extract_hash_from_magnet(magnet_link)
    \/ \E hash_str \in MagnetHashes : validator_validate_sha1_hash(hash_str)
    \/ \E hash_str \in MagnetHashes : add_to_blacklist(hash_str)

\* the call that has just returned is a parse of a magnet parsed before
RepeatedParse ==
    /\ v_calls' = v_calls + 1
    /\ v_op' = "parse"
    /\ v_first[v_arg'] # NoResult

\* C32: a repeated parse of a magnet returns exactly what its first,
\* uncached parse returned (verdict, extracted hash and message), whatever
\* calls of the validator came in between.
C32_CacheIsTransparent ==
    [][RepeatedParse => v_result' = v_first[v_arg']]_validatorVars

\* the call that has just returned parsed or validated something that
\* carries a hash of the blacklist
CarriesBlacklistedHash ==
    /\ v_calls' = v_calls + 1
    /\ v_op' \in {"parse", "validate"}
    /\ Len(v_arg'.rest) >= HASH_LENGTH
    /\ Lower(SubSeq(v_arg'.rest, 1, HASH_LENGTH)) \in v_blacklist

\* C38: once a hash is in the blacklist, every later parse or validation
\* of a magnet carrying that hash is rejected, even if the same magnet was
\* parsed and accepted before the hash was added.
C38_BlacklistedHashRejected ==
    [][CarriesBlacklistedHash => ~v_result'.valid]_validatorVars

(***************************************************************************)
(* PART 15 - TorrentQueue (backend/services/torrent_queue.py).  The jobs   *)
(* are numbered in the order of their creation (the code gives each a new  *)
(* uuid).  No statement of _process_queue and _start_torrent_job suspends  *)
(* the coroutine, so a call of _process_queue is one step.                 *)
(***************************************************************************)

\* jobs added in a run of the model
MaxJobs == 5

\* TorrentQueue.max_concurrent (settings.max_concurrent_torrents; the test
\* of the limit sets it to 2)
MaxConcurrent == 2

JobNames == {"Test 0", "Test 1"}

\* TorrentStatus values that end a job
FinishedStatuses == {"completed", "failed"}

\* settings.auto_delete_completed
auto_delete_completed == TRUE

QueueInit ==
    /\ j_jobs = <<>>
    /\ j_queue = <<>>
    /\ j_active = <<>>
    /\ j_started = <<>>

\* add_torrent (lines 41-54): a new job, queued, at the end of the queue
add_torrent(name) ==
    /\ Len(j_jobs) < MaxJobs
    /\ j_jobs' = Append(j_jobs, [name |-> name, status |-> "queued"])
    /\ j_queue' = Append(j_queue, Len(j_jobs) + 1)
    /\ UNCHANGED <<j_active, j_started>>
    /\ UNCHANGED outsideQueue

\* _cleanup_completed_jobs (lines 102-111): the active jobs that are left
cleanup_completed_jobs(active) ==
    IF auto_delete_completed
    THEN SelectSeq(active, LAMBDA id : j_jobs[id].status \notin FinishedStatuses)
    ELSE active

AvailableSlots_IgnoresActive(active) == MaxConcurrent

\* line 76: self.max_concurrent - len(self.active_jobs)
AvailableSlots(active) == MaxConcurrent - Len(active)

\* line 79: self.queue[:available_slots]
JobsToStart(active) ==
    IF AvailableSlots(active) > 0
    THEN SeqTake(j_queue, AvailableSlots(active))
    ELSE <<>>

\* _process_queue (lines 70-82) with _start_torrent_job (lines 84-100) for
\* each job it starts: the job is processing and active, and leaves the
\* queue.  None of the statements of the try block of _start_torrent_job
\* raises.
process_queue ==
    LET active == cleanup_completed_jobs(j_active)
        jobs_to_start == JobsToStart(active)
    IN  /\ j_active' = active \o jobs_to_start
        /\ j_queue' = DropFirst(j_queue, Len(jobs_to_start))
        /\ j_jobs' = [id \in DOMAIN j_jobs |->
                         IF \E i \in DOMAIN jobs_to_start : jobs_to_start[i] = id
                         THEN [j_jobs[id] EXCEPT !.status = "processing"]
                         ELSE j_jobs[id]]
        /\ j_started' = j_started \o jobs_to_start
        /\ UNCHANGED outsideQueue

QueueNext ==
    \/ \E name \in JobNames : add_torrent(name)
    \/ process_queue

\* C35: after any sequence of add_torrent and _process_queue calls the
\* active jobs never outnumber max_concurrent, the jobs are started in the
\* order they were added, and the jobs beyond the free slots remain queued.
C35_ConcurrencyLimit ==
    /\ Len(j_active) <= MaxConcurrent
    /\ j_started = [i \in 1..Len(j_started) |-> i]
    /\ j_queue = [i \in 1..Len(j_queue) |-> Len(j_started) + i]
    /\ Len(j_started) + Len(j_queue) = Len(j_jobs)

\* C35 witness: five jobs were added and a call of _process_queue has
\* started as many as there are slots; the others are queued.
C35_Witness ==
    /\ Len(j_jobs) = MaxJobs
    /\ Len(j_active) = MaxConcurrent
    /\ Len(j_queue) = MaxJobs - MaxConcurrent

\* C40: every job added to the queue is eventually started while the queue
\* processor keeps calling _process_queue.
C40_QueuedJobsStart ==
    \A id \in 1..MaxJobs :
        (id \in DOMAIN j_jobs /\ j_jobs[id].status = "queued")
            ~> (\E i \in DOMAIN j_started : j_started[i] = id)

(***************************************************************************)
(* PART 16 - the connections of the live event channel                     *)
(* (backend/app/core/websocket.py, backend/main.py websocket_endpoint).    *)
(* Every client is served by its own websocket_endpoint coroutine; a       *)
(* broadcast is a coroutine of a service.  All run on one event loop, so a *)
(* coroutine runs alone from one await to the next.  WebSocket objects are *)
(* numbered; a client that comes back gets a new object.                   *)
(***************************************************************************)

\* WebSocket objects created in a run of the model
MaxConnections == 3

\* broadcasts begun in a run of the model
MaxBroadcasts == 2

WebSockets == 1..MaxConnections

\* no connection
NO_CONNECTION == 0

\* the elements of a list
Elements(list) == {list[i] : i \in DOMAIN list}

ChannelInit ==
    /\ ws_sockets = [websocket \in WebSockets |-> "new"]
    /\ active_connections = <<>>
    /\ ws_pc = "idle"
    /\ ws_index = 0
    /\ ws_connection = NO_CONNECTION
    /\ ws_disconnected = <<>>
    /\ ws_received = {}
    /\ ws_stayed = {}
    /\ ws_broadcasts = 0

\* WebSocketManager.disconnect (lines 18-22): list.remove of the socket when
\* it is in the list (a socket is in the list at most once)
disconnect(connections, websocket) ==
    SelectSeq(connections, LAMBDA c : c # websocket)

RECURSIVE disconnect_all(_, _)
\* broadcast, lines 48-49: disconnect for each element of `disconnected`
disconnect_all(connections, disconnected) ==
    IF disconnected = <<>> THEN connections
    ELSE disconnect_all(disconnect(connections, Head(disconnected)),
                        Tail(disconnected))

\* websocket_endpoint, line 51, and WebSocketManager.connect: the socket is
\* accepted and appended; the endpoint then waits in receive_text
connect(websocket) ==
    /\ ws_sockets[websocket] = "new"
    /\ ws_sockets' = [ws_sockets EXCEPT ![websocket] = "open"]
    /\ active_connections' = Append(active_connections, websocket)
    /\ UNCHANGED <<ws_pc, ws_index, ws_connection, ws_disconnected, ws_received,
                   ws_stayed, ws_broadcasts>>
    /\ UNCHANGED outsideChannel

\* websocket_endpoint, lines 55-59: the client goes away, receive_text
\* raises and the finally clause disconnects the socket
websocket_endpoint_exits(websocket) ==
    /\ ws_sockets[websocket] = "open"
    /\ ws_sockets' = [ws_sockets EXCEPT ![websocket] = "closed"]
    /\ active_connections' = disconnect(active_connections, websocket)
    /\ ws_stayed' = ws_stayed \ {websocket}
    /\ UNCHANGED <<ws_pc, ws_index, ws_connection, ws_disconnected, ws_received,
                   ws_broadcasts>>
    /\ UNCHANGED outsideChannel

\* for connection in self.active_connections: the list iterator yields the
\* element at its index in the list as the list is now, or stops
IteratorStops == ws_index >= Len(active_connections)

\* broadcast, lines 34-42: nothing is done without connections; otherwise
\* the loop starts and the coroutine waits in the first send_text
broadcast ==
    /\ ws_pc = "idle"
    /\ ws_broadcasts < MaxBroadcasts
    /\ ws_broadcasts' = ws_broadcasts + 1
    /\ ws_received' = {}
    /\ ws_disconnected' = <<>>
    /\ ws_stayed' = Elements(active_connections)
    /\ IF active_connections = <<>>
       THEN UNCHANGED <<ws_pc, ws_index, ws_connection>>
       ELSE /\ ws_pc' = "sending"
            /\ ws_index' = 1
            /\ ws_connection' = active_connections[1]
    /\ UNCHANGED <<ws_sockets, active_connections>>
    /\ UNCHANGED outsideChannel

\* broadcast, lines 42-49: send_text returns or raises (it raises on a
\* socket whose client is gone); the loop goes on to the next element, and
\* after the last one the sockets of `disconnected` are removed
send_text_returns(sent) ==
    /\ ws_pc = "sending"
    /\ sent => ws_sockets[ws_connection] = "open"
    /\ ws_received' = IF sent THEN ws_received \cup {ws_connection}
                     ELSE ws_received
    /\ ws_disconnected' = IF sent THEN ws_disconnected
                         ELSE Append(ws_disconnected, ws_connection)
    /\ IF IteratorStops
       THEN /\ active_connections' =
                   disconnect_all(active_connections, ws_disconnected')
            /\ ws_pc' = "idle"
            /\ ws_connection' = NO_CONNECTION
            /\ UNCHANGED ws_index
       ELSE /\ ws_connection' = active_connections[ws_index + 1]
            /\ ws_index' = ws_index + 1
            /\ UNCHANGED <<active_connections, ws_pc>>
    /\ UNCHANGED <<ws_sockets, ws_stayed, ws_broadcasts>>
    /\ UNCHANGED outsideChannel

ChannelNext ==
    \/ \E websocket \in WebSockets : connect(websocket)
    \/ \E websocket \in WebSockets : websocket_endpoint_exits(websocket)
    \/ broadcast
    \/ \E sent \in BOOLEAN : send_text_returns(sent)

\* the step in which broadcast returns after its loops
BroadcastReturns == ws_pc = "sending" /\ ws_pc' = "idle"

\* C39: a broadcast on the live event channel delivers the event to every
\* connection that stays connected for the whole broadcast, even when other
\* connections connect, disconnect or fail to receive while the broadcast
\* is in progress; exactly the connections whose send failed are removed.
C39_BroadcastReachesEveryConnection ==
    [][BroadcastReturns
         => /\ \A c \in ws_stayed' :
                  c \in ws_received' \/ c \in Elements(ws_disconnected')
            /\ Elements(active_connections') =
                  Elements(active_connections) \ Elements(ws_disconnected')
      ]_channelVars

vars == <<gateVars, storeVars, openVars, clientVars, backendVars,
          handlerVars, scanVars, walkerVars, schedVars, eventVars,
          candidateVars, preflightVars, upsertVars, validatorVars,
          queueVars, channelVars>>

\* the parts other than the Store, as constructed
NonStoreInit ==
    /\ GateInit
    /\ OpenInit
    /\ ClientInit
    /\ BackendInit
    /\ HandlerInit
    /\ ScanInit
    /\ WalkerInit
    /\ SchedulerInit
    /\ EventsInit
    /\ CandidatesInit
    /\ PreflightInit
    /\ UpsertInit
    /\ ValidatorInit
    /\ QueueInit
    /\ ChannelInit

Init == StoreInit /\ NonStoreInit

\* the start of a run on the database of RetryInit
InitRetry == RetryInit /\ NonStoreInit

\* the start of the run of the client of WarmClientInit
InitClientWarm ==
    /\ StoreInit
    /\ GateInit
    /\ OpenInit
    /\ WarmClientInit
    /\ BackendInit
    /\ HandlerInit
    /\ ScanInit
    /\ WalkerInit
    /\ SchedulerInit
    /\ EventsInit
    /\ CandidatesInit
    /\ PreflightInit
    /\ UpsertInit
    /\ ValidatorInit
    /\ QueueInit
    /\ ChannelInit

Next ==
    \/ GateNext
    \/ StoreNext
    \/ OpenNext
    \/ ClientNext
    \/ BackendNext
    \/ HandlerNext
    \/ ScanNext
    \/ WalkerNext
    \/ SchedulerNext
    \/ EventsNext
    \/ CandidatesNext
    \/ PreflightNext
    \/ UpsertNext
    \/ ValidatorNext
    \/ QueueNext
    \/ ChannelNext

Spec == Init /\ [][Next]_vars

\* the gate alone
SpecGate == Init /\ [][GateNext]_vars

\* the Store, the re-submissions and the failure handling alone
SpecStore == Init /\ [][StoreNext]_vars

\* the re-submission cycles of a run that finds a scheduled retry in its
\* database
SpecRetry == InitRetry /\ [][RetryNext]_vars

\* the opens of the Store alone; a thread inside the constructor keeps
\* running whenever it can take a step
SpecOpen ==
    /\ Init
    /\ [][OpenNext]_vars
    /\ \A p \in Processes : WF_vars(OpenStep(p))

\* the provider client alone
SpecClient == Init /\ [][ClientNext]_vars

\* the provider client alone, after a long run of successes
SpecClientWarm == InitClientWarm /\ [][ClientNext]_vars

\* the backend application alone
SpecBackend == Init /\ [][BackendNext]_vars

\* the FailureHandler on the media tree alone, with the choice of the mode
SpecHandler == Init /\ [][HandlerNext]_vars

\* the full scan alone
SpecScan == Init /\ [][ScanNext]_vars

\* the walker alone
SpecWalker == Init /\ [][WalkerNext]_vars

\* the backend application without the deletion of torrents
SpecBackendResubmit == Init /\ [][BackendResubmitNext]_vars

\* the Scheduler and the queue processor alone; the process keeps running
\* whenever it can take a step
SpecScheduler ==
    /\ Init
    /\ [][SchedulerNext]_vars
    /\ WF_vars(SchedulerNext)

\* the operations of the backend services on the event channel alone; an
\* operation in flight ends
SpecEvents ==
    /\ Init
    /\ [][EventsNext]_vars
    /\ WF_vars(EventsNext)

\* the selection of the candidates alone
SpecCandidates == Init /\ [][CandidatesNext]_vars

\* the pre-flight of the re-submissions alone
SpecPreflight == Init /\ [][PreflightNext]_vars

\* the two writes of a torrent alone
SpecUpsert == Init /\ [][UpsertNext]_vars

\* the validator alone
SpecValidator == Init /\ [][ValidatorNext]_vars

\* the TorrentQueue alone; the queue processor keeps calling
\* _process_queue
SpecQueue ==
    /\ Init
    /\ [][QueueNext]_vars
    /\ WF_vars(process_queue)

\* the connections of the live event channel alone
SpecChannel == Init /\ [][ChannelNext]_vars

====
